---- MODULE Spec2Model ----
(***************************************************************************)
(* Device session engine of nexus-next (package nexus): the connection     *)
(* manager (InitializeDevice, ConnectNexus, monitorConnection,             *)
(* attemptReconnection, checkDeviceHealth), the display scheduler's        *)
(* render+transmit path (StartDisplayUpdate, updateDisplay, drawDisplay,   *)
(* sendImageDataInChunks, resetDevice) and the touch-input reader          *)
(* (StartTouchMonitor, readTouchInput, processTouchEvents).                *)
(*                                                                         *)
(* The goroutines share the package variables device, usbintf and          *)
(* connected.  Each statement that reads or writes one of them is a step   *)
(* of its own, so that every interleaving the Go scheduler can produce is  *)
(* a behaviour of the model.  A device handle is a number (0 is nil); the  *)
(* interface claimed on handle h is also written h.  closed and intfClosed *)
(* record the handles and interfaces on which Close() has been called.     *)
(*                                                                         *)
(* The specifications share the variables.  Spec (LiveSpec with fairness)  *)
(* is the session: every worker that writes device, usbintf and connected, *)
(* statement by statement, with the Scheduler's events reduced to the fact *)
(* that they call updateDisplay.  SchedSpec and RefreshSpec are the        *)
(* Scheduler's event loop with what the events carry (its state struct,    *)
(* the channels, the clock); there the other workers are reduced to their  *)
(* writes to the session, and the temperature and network monitors to the  *)
(* values they send.  EncSpec is one call of sendImageDataInChunks, byte   *)
(* by byte, up to drawDisplay's handling of what it returns; EncTwiceSpec  *)
(* is two such calls on the same frame.  DrawSpec is drawDisplay up to     *)
(* that call: CreateImageContext and the Draw functions, with WatchConfig  *)
(* running beside them.  ResetSpec is the session from a transmission on   *)
(* a connected device, with resetDevice statement by statement.  FlowSpec  *)
(* (FlowLiveSpec with fairness) is the Scheduler's select with each        *)
(* producer's own position and the order in which the events arrived.  A   *)
(* specification leaves the variables it does not follow at their initial  *)
(* values.                                                                 *)
(***************************************************************************)
EXTENDS Integers, Sequences, FiniteSets

\* Size of the pool device handles are numbered from.  A handle number is
\* reused once nothing refers to it any more.
NumHandles == 5

\* connectnexus.go:97
maxRetries == 10

Handles == 1..NumHandles

\* What OpenDevices and the initialisation calls meet on the bus.
EnvStates == {"absent", "good", "faulty"}

\* The initialisation steps of ConnectNexus that end in log.Fatalf.
InitSteps == {"autodetach", "config", "interface"}

\* The Scheduler events that call updateDisplay.
RenderEvents == {"tick", "weather", "config"}

VARIABLES
    envState,     \* the physical device: absent, good, or failing its set-up
    fatal,        \* "none", or why the process has exited
    device,       \* nexus.go:35
    usbintf,      \* nexus.go:36
    connected,    \* nexus.go:37
    closed,       \* device handles Close() was called on
    intfClosed,   \* interfaces Close() was called on
    deviceMutex,  \* display.go:51: "free" or the worker holding it
    mainPc,       \* StartNexus / InitializeDevice
    monPc,        \* monitorConnection / attemptReconnection
    monI,         \* loop variable i of attemptReconnection
    newDevice,    \* the value ConnectNexus is about to return / has returned
    attempts,     \* history: ConnectNexus calls made by the running retry sequence
    waits,        \* history: the backoff waits (seconds) of the running retry sequence
    schedPc,      \* StartDisplayUpdate loop
    schedEv,      \* the select case being handled
    touchPc,      \* StartTouchMonitor goroutine
    tintf,        \* the interface readTouchInput deferred Close() on
    state,        \* display.go:72-78: the Scheduler's aggregate state
    now,          \* the clock, in seconds
    refreshRate,  \* display.go:80: ticks waiting in refreshRate.C (capacity 1)
    weatherChan,  \* part_008:59: the weather monitor's output (capacity 1)
    configUpdate, \* nexus.go:44: updateCh, signals waiting (capacity 1)
    weatherUpdate,\* part_008:61: updateChan, requests waiting (capacity 1)
    config,       \* nexus.go:42: the display preferences of the loaded config
    textSettings, \* draw.go:86-97: what SetTimeFormat/SetTextColor last set
    lastFrame,    \* history: the content of the last frame fully transmitted
    encPc,        \* sendImageDataInChunks: position in the function
    frame,        \* its argument: [len, seed] of imageData
    encI,         \* its loop variable i
    data,         \* display.go:261: the 4096-byte chunk buffer
    writerBuf,    \* display.go:271: the bytes the bufio.Writer holds
    wire,         \* history: number of Write calls the endpoint has received
    reads,        \* history: the pixels of imageData the last chunk was filled from
    devErr,       \* "none", or the kind of error the endpoint's Write returned
    ddRet,        \* "none", or what drawDisplay returned after the call
    call,         \* history: which call of sendImageDataInChunks this is
    probe,        \* history: the position in the chunk sequence being recorded
    seen,         \* history: the chunk the first call produced at that position
    drawPc,       \* drawDisplay: position in the function
    asset,        \* what os.Open and gif.DecodeAll find at "background.gif"
    getBackgroundOnce, \* draw.go:25: TRUE once the sync.Once has run
    background,   \* draw.go:24: the background frames
    bgColor,      \* cfg.BackgroundColor of the loaded configuration
    img,          \* draw.go:55: the image the elements are drawn on
    imageBuffer,  \* display.go:215: the frame handed to the encoder
    renders,      \* history: calls of drawDisplay made so far
    cfg,          \* display.go:208: the configuration drawDisplay has read
    dSrc,         \* draw.go:72-74, 89: d.Src, the colour text is drawn with
    inks,         \* the colour each text element of img was drawn with
    unit,         \* nexus.go:29
    symbols,      \* draw.go:26-27: degreeSymbol and speedSymbol
    weatherUnit,  \* the cfg.Unit state.weather was fetched with
    tempPc,       \* StartTempatureMonitor's loop: "poll", or "send" at its send
    netPc,        \* StartNetworkMonitor's loop, likewise
    wsInfo,       \* part_008:99: state.info of the weather monitor
    order         \* history: the sources of the events in the order they arrived

shared == <<device, usbintf, connected>>
handleSets == <<closed, intfClosed>>
monVars == <<monPc, monI, newDevice, attempts, waits>>
aggVars == <<state, now, refreshRate, weatherChan, configUpdate, weatherUpdate,
             config, textSettings, lastFrame>>
encVars == <<encPc, frame, encI, data, writerBuf, wire, reads, devErr, ddRet,
             call, probe, seen>>
inkVars == <<cfg, dSrc, inks, unit, symbols, weatherUnit>>
drawVars == <<drawPc, asset, getBackgroundOnce, background, bgColor, img,
              imageBuffer, renders, inkVars>>
flowVars == <<tempPc, netPc, wsInfo, order>>
schedVars == <<schedPc, schedEv, aggVars, encVars, drawVars, flowVars>>
touchVars == <<touchPc, tintf>>
vars == <<envState, fatal, device, usbintf, connected, closed, intfClosed,
          deviceMutex, mainPc, monPc, monI, newDevice, attempts, waits,
          schedPc, schedEv, touchPc, tintf, aggVars, encVars, drawVars,
          flowVars>>

\* time.Duration(1<<uint(i)) * time.Second, in seconds
RECURSIVE Shl1(_)
Shl1(i) == IF i = 0 THEN 1 ELSE 2 * Shl1(i - 1)

\* Every handle some variable still refers to.
Refs == {device, usbintf, newDevice, tintf} \ {0}

\* The handle the next successful OpenDevices returns.
FreshHandle == CHOOSE h \in Handles : h \notin Refs /\ \A k \in 1..(h - 1) : k \in Refs

\* Close() records; records of handles nothing refers to are dropped.
SetClosed(c, ic) ==
    /\ closed' = c \cap Refs'
    /\ intfClosed' = ic \cap Refs'

KeepClosed == SetClosed(closed, intfClosed)

Running == fatal = "none"
Started == Running /\ mainPc = "started"

\* instruments.WeatherInfo values a lookup can return; "nil" is the nil pointer
WeatherInfos == {"sunny", "rain"}

\* instruments.SystemTemperature and instruments.NetworkStats samples
TempReadings == {[CPU |-> 1, GPU |-> 2]}
NetReadings == {[Sent |-> 1, Received |-> 2]}

\* cfg.TimeFormat / cfg.TextColor of a configuration file
Prefs == {"12h", "24h"}

\* The other fields of the two configuration files, for the specification
\* that follows them (configuration.go:32-47): cfg.TextColor and cfg.Unit
TextColorOf(c) == IF c = "12h" THEN "red" ELSE "teal"
UnitOf(c) == IF c = "12h" THEN "imperial" ELSE "metric"

\* display.go:72-78: the zero value of the state struct.  A time.Time is
\* written <<t>>; <<>> is its zero value.
ZeroState ==
    [cpu |-> 0, gpu |-> 0, network |-> [Sent |-> 0, Received |-> 0],
     weather |-> "nil", lastWeatherUpdate |-> <<>>]

\* The Scheduler's loop before its first event.
\* The producers are at the top of their loops and nothing has arrived.
FlowIdle ==
    /\ tempPc = "poll"
    /\ netPc = "poll"
    /\ wsInfo = "nil"
    /\ order = <<>>

AggInit ==
    /\ FlowIdle
    /\ state = ZeroState
    /\ now = 0
    /\ refreshRate = 0
    /\ configUpdate = 0
    /\ weatherUpdate = 0
    /\ config \in Prefs
    /\ textSettings = config
    /\ lastFrame = <<>>

\* No call of sendImageDataInChunks is being followed.
EncIdle ==
    /\ encPc = "idle"
    /\ frame = [len |-> 0, seed |-> 0]
    /\ encI = 0
    /\ data = <<>>
    /\ writerBuf = <<>>
    /\ wire = 0
    /\ reads = {}
    /\ devErr = "none"
    /\ ddRet = "none"
    /\ call = 1
    /\ probe = -1
    /\ seen = <<>>

\* image.NewRGBA, draw.go:49, 55: every byte of Pix is zero
ZeroPixel == <<0, 0, 0, 0>>

\* No call of drawDisplay is being followed.
DrawIdle ==
    /\ drawPc = "idle"
    /\ asset = <<>>
    /\ getBackgroundOnce = FALSE
    /\ background = <<>>
    /\ bgColor = "black"
    /\ img = [pix |-> 0, fill |-> ZeroPixel, text |-> <<>>]
    /\ imageBuffer = [len |-> 0, fill |-> ZeroPixel, text |-> <<>>]
    /\ renders = 0
    /\ cfg = "12h"
    /\ dSrc = ZeroPixel
    /\ inks = <<>>
    /\ unit = "imperial"
    /\ symbols = <<"", "">>
    /\ weatherUnit = "imperial"

Init ==
    /\ envState \in EnvStates
    /\ fatal = "none"
    /\ device = 0
    /\ usbintf = 0
    /\ connected = FALSE
    /\ closed = {}
    /\ intfClosed = {}
    /\ deviceMutex = "free"
    /\ mainPc = "init_open"
    /\ monPc = "idle"
    /\ monI = 0
    /\ newDevice = 0
    /\ attempts = 0
    /\ waits = <<>>
    /\ schedPc = "select"
    /\ schedEv = "tick"
    /\ touchPc = "t_loop"
    /\ tintf = 0
    /\ AggInit /\ config = "12h"
    /\ weatherChan = <<>>
    /\ EncIdle
    /\ DrawIdle

(***************************************************************************)
(* The bus: the device is plugged, unplugged, or starts failing its set-up *)
(***************************************************************************)
EnvChange ==
    /\ \E s \in EnvStates \ {envState} : envState' = s
    /\ UNCHANGED <<fatal, shared, handleSets, deviceMutex, mainPc, monVars,
                   schedVars, touchVars>>

(***************************************************************************)
(* ConnectNexus, connectnexus.go:41-80                                     *)
(***************************************************************************)
\* lines 46-52: OpenDevices returns an error
ConnectOpenFatal ==
    /\ envState = "faulty"
    /\ fatal' = "open"
    /\ UNCHANGED <<shared, newDevice>>
    /\ KeepClosed

\* Mutant of ConnectNoDevice: device is assigned before the match count is tested.
ConnectNoDeviceAssignsFirst ==
    /\ envState = "absent"
    /\ newDevice' = 0
    /\ device' = 0
    /\ UNCHANGED <<fatal, usbintf, connected>>
    /\ KeepClosed

\* lines 54-56: no device matches vid/pid
ConnectNoDevice ==
    /\ envState = "absent"
    /\ newDevice' = 0
    /\ UNCHANGED <<fatal, shared>>
    /\ KeepClosed

\* line 58: device = devices[0]
ConnectFound ==
    /\ envState # "absent"
    /\ LET h == FreshHandle IN
        /\ device' = h
        /\ newDevice' = h
        /\ UNCHANGED <<fatal, usbintf, connected>>
        /\ SetClosed(closed \ {h}, intfClosed \ {h})

\* lines 60-75: SetAutoDetach, Config(1) or Interface(0, 0) fails
ConnectInitFatal ==
    /\ envState # "good"
    /\ \E step \in InitSteps : fatal' = step
    /\ UNCHANGED <<shared, newDevice>>
    /\ KeepClosed

\* lines 60-79: the three steps succeed; usbintf = intf; return device
ConnectInitOk ==
    /\ envState = "good"
    /\ usbintf' = newDevice
    /\ UNCHANGED <<fatal, device, connected, newDevice>>
    /\ KeepClosed

(***************************************************************************)
(* InitializeDevice, connectnexus.go:10-17 (called from StartNexus before  *)
(* any other worker of the session is started)                             *)
(***************************************************************************)
InitOpen ==
    /\ Running /\ mainPc = "init_open"
    /\ UNCHANGED <<envState, deviceMutex, monPc, monI, attempts, waits,
                   schedVars, touchVars>>
    /\ \/ mainPc' = mainPc /\ ConnectOpenFatal
       \/ mainPc' = "init_assign" /\ ConnectNoDevice
       \/ mainPc' = "init_setup" /\ ConnectFound

InitSetup ==
    /\ Running /\ mainPc = "init_setup"
    /\ UNCHANGED <<envState, deviceMutex, monPc, monI, attempts, waits,
                   schedVars, touchVars>>
    /\ \/ mainPc' = mainPc /\ ConnectInitFatal
       \/ mainPc' = "init_assign" /\ ConnectInitOk

\* lines 11-16: device = ConnectNexus(); if device != nil { connected = true };
\* RetryConnectNexus()
InitAssign ==
    /\ Running /\ mainPc = "init_assign"
    /\ device' = newDevice
    /\ connected' = IF newDevice # 0 THEN TRUE ELSE connected
    /\ newDevice' = 0
    /\ mainPc' = "started"
    /\ UNCHANGED <<envState, fatal, usbintf, deviceMutex, monPc, monI,
                   attempts, waits, schedVars, touchVars>>
    /\ KeepClosed

(***************************************************************************)
(* monitorConnection, connectnexus.go:94-116                               *)
(***************************************************************************)
monFrame == <<envState, deviceMutex, mainPc, schedVars, touchVars>>

\* Mutant of MonitorTick: a tick is taken while the loop body is still running.
MonitorTickAnytime ==
    /\ Started
    /\ IF ~connected
         THEN /\ monPc' = "attempt"
              /\ monI' = 0
              /\ attempts' = 0
              /\ waits' = <<>>
         ELSE /\ monPc' = "health"
              /\ UNCHANGED <<monI, attempts, waits>>
    /\ UNCHANGED <<fatal, shared, handleSets, newDevice>>
    /\ UNCHANGED monFrame

\* lines 103-107: a tick; if !connected { attemptReconnection(maxRetries) }
MonitorTick ==
    /\ Started /\ monPc = "idle"
    /\ IF ~connected
         THEN /\ monPc' = "attempt"
              /\ monI' = 0
              /\ attempts' = 0
              /\ waits' = <<>>
         ELSE /\ monPc' = "health"
              /\ UNCHANGED <<monI, attempts, waits>>
    /\ UNCHANGED <<fatal, shared, handleSets, newDevice>>
    /\ UNCHANGED monFrame

\* checkDeviceHealth, lines 152-164
checkDeviceHealth == device # 0 /\ usbintf # 0

\* line 109: if !checkDeviceHealth()
MonitorHealth ==
    /\ Started /\ monPc = "health"
    /\ monPc' = IF checkDeviceHealth THEN "idle" ELSE "hc_flip"
    /\ UNCHANGED <<fatal, shared, handleSets, monI, newDevice, attempts, waits>>
    /\ UNCHANGED monFrame

\* Mutant of MonitorHealthFlip: the failed health check reconnects at once.
MonitorHealthReconnects ==
    /\ Started /\ monPc = "hc_flip"
    /\ connected' = FALSE
    /\ monPc' = "attempt"
    /\ UNCHANGED <<fatal, device, usbintf, handleSets, monI, newDevice,
                   attempts, waits>>
    /\ UNCHANGED monFrame

\* line 110: connected = false
MonitorHealthFlip ==
    /\ Started /\ monPc = "hc_flip"
    /\ connected' = FALSE
    /\ monPc' = "hc_close"
    /\ UNCHANGED <<fatal, device, usbintf, handleSets, monI, newDevice,
                   attempts, waits>>
    /\ UNCHANGED monFrame

\* lines 111-113: if device != nil { device.Close() }
MonitorHealthClose ==
    /\ Started /\ monPc = "hc_close"
    /\ monPc' = "idle"
    /\ UNCHANGED <<fatal, shared, monI, newDevice, attempts, waits>>
    /\ UNCHANGED monFrame
    /\ SetClosed(IF device # 0 THEN closed \cup {device} ELSE closed, intfClosed)

(***************************************************************************)
(* attemptReconnection, connectnexus.go:125-144                            *)
(***************************************************************************)
\* Mutant of LoopGuard: the loop runs once too often.
LoopGuardOffByOne(i) == i <= maxRetries

\* line 126: the loop condition i < maxRetries
LoopGuard(i) == i < maxRetries

\* line 127: newDevice := ConnectNexus(), up to line 58
AttemptOpen ==
    /\ Started /\ monPc = "attempt"
    /\ attempts' = attempts + 1
    /\ UNCHANGED <<monI, waits>>
    /\ UNCHANGED monFrame
    /\ \/ monPc' = monPc /\ ConnectOpenFatal
       \/ monPc' = "failed" /\ ConnectNoDevice
       \/ monPc' = "setup" /\ ConnectFound

\* line 127: ConnectNexus lines 60-79
AttemptSetup ==
    /\ Started /\ monPc = "setup"
    /\ UNCHANGED <<monI, attempts, waits>>
    /\ UNCHANGED monFrame
    /\ \/ monPc' = monPc /\ ConnectInitFatal
       \/ monPc' = "close_old" /\ ConnectInitOk

\* lines 128-130: if device != nil { device.Close() }
AttemptCloseOld ==
    /\ Started /\ monPc = "close_old"
    /\ monPc' = "install"
    /\ UNCHANGED <<fatal, shared, monI, newDevice, attempts, waits>>
    /\ UNCHANGED monFrame
    /\ SetClosed(IF device # 0 THEN closed \cup {device} ELSE closed, intfClosed)

\* line 131: device = newDevice
AttemptInstall ==
    /\ Started /\ monPc = "install"
    /\ device' = newDevice
    /\ monPc' = "set_conn"
    /\ UNCHANGED <<fatal, usbintf, connected, monI, newDevice, attempts, waits>>
    /\ UNCHANGED monFrame
    /\ KeepClosed

\* lines 132-134: connected = true; return
AttemptSucceed ==
    /\ Started /\ monPc = "set_conn"
    /\ connected' = TRUE
    /\ monPc' = "idle"
    /\ monI' = 0
    /\ newDevice' = 0
    /\ attempts' = 0
    /\ waits' = <<>>
    /\ UNCHANGED <<fatal, device, usbintf>>
    /\ UNCHANGED monFrame
    /\ KeepClosed

\* line 137: if i < maxRetries-1
BackoffGuard(i) == i < maxRetries - 1

\* Mutant of Backoff: the wait grows linearly.
BackoffLinear(i) == i + 1

\* line 138: backoff := time.Duration(1<<uint(i)) * time.Second, in seconds
Backoff(i) == Shl1(i)

\* lines 137-141, 126: the attempt failed; time.Sleep(backoff) unless it was
\* the last one; i++; i < maxRetries
AttemptFailed ==
    /\ Started /\ monPc = "failed"
    /\ waits' = IF BackoffGuard(monI) THEN Append(waits, Backoff(monI)) ELSE waits
    /\ monI' = monI + 1
    /\ monPc' = IF LoopGuard(monI + 1) THEN "attempt" ELSE "exhausted"
    /\ UNCHANGED <<fatal, shared, handleSets, newDevice, attempts>>
    /\ UNCHANGED monFrame

\* line 143: log "Failed all reconnection attempts"; back to the ticker
AttemptGiveUp ==
    /\ Started /\ monPc = "exhausted"
    /\ monPc' = "idle"
    /\ monI' = 0
    /\ attempts' = 0
    /\ waits' = <<>>
    /\ UNCHANGED <<fatal, shared, handleSets, newDevice>>
    /\ UNCHANGED monFrame

Monitor ==
    \/ MonitorTick \/ MonitorHealth \/ MonitorHealthFlip \/ MonitorHealthClose
    \/ AttemptOpen \/ AttemptSetup \/ AttemptCloseOld \/ AttemptInstall
    \/ AttemptSucceed \/ AttemptFailed \/ AttemptGiveUp

(***************************************************************************)
(* StartDisplayUpdate, display.go:64-128: the Scheduler's event loop       *)
(***************************************************************************)
schedFrame ==
    <<envState, mainPc, monVars, touchVars, aggVars, encVars, drawVars,
      flowVars>>

\* lines 85-125 and updateDisplay, line 148: a select case that calls
\* updateDisplay is taken; deviceMutex.Lock()
SchedSelect ==
    /\ Started /\ schedPc = "select"
    /\ deviceMutex = "free"
    /\ \E ev \in RenderEvents : schedEv' = ev
    /\ deviceMutex' = "sched"
    /\ schedPc' = "ud_check"
    /\ UNCHANGED <<fatal, shared, handleSets>>
    /\ UNCHANGED schedFrame

\* Mutant of UpdateDisplayCheck: only a nil device makes updateDisplay return.
UpdateDisplayCheckNilOnly ==
    /\ Started /\ schedPc = "ud_check"
    /\ deviceMutex' = "free"
    /\ schedPc' = IF device = 0 THEN "select" ELSE "dd_check"
    /\ UNCHANGED <<fatal, shared, handleSets, schedEv>>
    /\ UNCHANGED schedFrame

\* updateDisplay, lines 150-155: if !connected || device == nil { return nil }
UpdateDisplayCheck ==
    /\ Started /\ schedPc = "ud_check"
    /\ deviceMutex' = "free"
    /\ schedPc' = IF ~connected \/ device = 0 THEN "select" ELSE "dd_check"
    /\ UNCHANGED <<fatal, shared, handleSets, schedEv>>
    /\ UNCHANGED schedFrame

\* drawDisplay, lines 203-232: if device == nil { return nil }; render the frame
DrawDisplayCheck ==
    /\ Started /\ schedPc = "dd_check"
    /\ schedPc' = IF device = 0 THEN "select" ELSE "send_check"
    /\ UNCHANGED <<fatal, shared, handleSets, deviceMutex, schedEv>>
    /\ UNCHANGED schedFrame

\* sendImageDataInChunks, lines 244-259: if !connected { return nil };
\* ep, err := usbintf.OutEndpoint(2)
SendCheck ==
    /\ Started /\ schedPc = "send_check"
    /\ IF ~connected
         THEN schedPc' = "select" /\ fatal' = fatal
         ELSE IF usbintf = 0
         THEN schedPc' = schedPc /\ fatal' = "panic"
         ELSE IF usbintf \in intfClosed
         THEN schedPc' = "dd_fail" /\ fatal' = fatal
         ELSE schedPc' = "writing" /\ fatal' = fatal
    /\ UNCHANGED <<shared, handleSets, deviceMutex, schedEv>>
    /\ UNCHANGED schedFrame

\* lines 274-313: every chunk is written and flushed; return nil.  A write
\* can fail at any time (SendDisconnected, SendError); it cannot succeed while
\* the device is unplugged.
SendOk ==
    /\ Started /\ schedPc = "writing"
    /\ envState # "absent"
    /\ schedPc' = "select"
    /\ UNCHANGED <<fatal, shared, handleSets, deviceMutex, schedEv>>
    /\ UNCHANGED schedFrame

\* lines 299-303: a Write fails with "libusb: device was disconnected":
\* connected = false; return nil
SendDisconnected ==
    /\ Started /\ schedPc = "writing"
    /\ connected' = FALSE
    /\ schedPc' = "select"
    /\ UNCHANGED <<fatal, device, usbintf, handleSets, deviceMutex, schedEv>>
    /\ UNCHANGED schedFrame

\* lines 299-304: a Write fails with another error: connected = false; return err
SendError ==
    /\ Started /\ schedPc = "writing"
    /\ connected' = FALSE
    /\ schedPc' = "dd_fail"
    /\ UNCHANGED <<fatal, device, usbintf, handleSets, deviceMutex, schedEv>>
    /\ UNCHANGED schedFrame

\* StartDisplayUpdate, lines 94-96, 116-118, 121-124: only the ticker case
\* calls resetDevice on an error
ResetsOnError(ev) == ev = "tick"

\* drawDisplay, lines 235-238: connected = false; return the error; in the
\* ticker case resetDevice, line 179: deviceMutex.Lock()
DrawDisplayFail ==
    /\ Started /\ schedPc = "dd_fail"
    /\ deviceMutex = "free"
    /\ connected' = FALSE
    /\ IF ResetsOnError(schedEv)
         THEN schedPc' = "rd_close" /\ deviceMutex' = "sched"
         ELSE schedPc' = "select" /\ deviceMutex' = deviceMutex
    /\ UNCHANGED <<fatal, device, usbintf, handleSets, schedEv>>
    /\ UNCHANGED schedFrame

\* resetDevice, lines 182-184: if device != nil { device.Close() }
ResetClose ==
    /\ Started /\ schedPc = "rd_close"
    /\ schedPc' = "rd_nil"
    /\ UNCHANGED <<fatal, shared, deviceMutex, schedEv>>
    /\ UNCHANGED schedFrame
    /\ SetClosed(IF device # 0 THEN closed \cup {device} ELSE closed, intfClosed)

\* resetDevice, line 186: device = nil
ResetNil ==
    /\ Started /\ schedPc = "rd_nil"
    /\ device' = 0
    /\ schedPc' = "rd_flag"
    /\ UNCHANGED <<fatal, usbintf, connected, deviceMutex, schedEv>>
    /\ UNCHANGED schedFrame
    /\ KeepClosed

\* resetDevice, lines 187-188: connected = false; the deferred Unlock()
ResetFlag ==
    /\ Started /\ schedPc = "rd_flag"
    /\ connected' = FALSE
    /\ deviceMutex' = "free"
    /\ schedPc' = "select"
    /\ UNCHANGED <<fatal, device, usbintf, handleSets, schedEv>>
    /\ UNCHANGED schedFrame

Scheduler ==
    \/ SchedSelect \/ UpdateDisplayCheck \/ DrawDisplayCheck \/ SendCheck
    \/ SendOk \/ SendDisconnected \/ SendError \/ DrawDisplayFail
    \/ ResetClose \/ ResetNil \/ ResetFlag

(***************************************************************************)
(* StartTouchMonitor, readTouchInput, processTouchEvents, draw.go:325-406  *)
(***************************************************************************)
touchFrame == <<envState, deviceMutex, mainPc, monVars, schedVars>>

\* lines 330, 356-358: readTouchInput(device); if device == nil { return err }
TouchLoop ==
    /\ Started /\ touchPc = "t_loop"
    /\ touchPc' = IF device = 0 THEN "t_err" ELSE "t_read"
    /\ UNCHANGED <<fatal, shared, handleSets, tintf>>
    /\ UNCHANGED touchFrame

\* readTouchInput, lines 360-367: defer usbintf.Close();
\* in, err := usbintf.InEndpoint(1).  With usbintf still nil the call
\* dereferences a nil *gousb.Interface and the goroutine panics; on a closed
\* interface it returns an error.
TouchRead ==
    /\ Started /\ touchPc = "t_read"
    /\ IF usbintf = 0
         THEN fatal' = "panic" /\ UNCHANGED <<touchPc, tintf>>
         ELSE IF usbintf \in intfClosed
         THEN touchPc' = "t_err" /\ UNCHANGED <<fatal, tintf>>
         ELSE touchPc' = "t_events" /\ tintf' = usbintf /\ fatal' = fatal
    /\ UNCHANGED shared
    /\ UNCHANGED touchFrame
    /\ KeepClosed

\* in.Read can end with "libusb: no device [code -4]"
NoDevice(h) == envState = "absent" \/ h \in closed \/ h \in intfClosed

\* processTouchEvents, lines 389-394: connected = false; return err
TouchNoDevice ==
    /\ Started /\ touchPc = "t_events"
    /\ NoDevice(tintf)
    /\ connected' = FALSE
    /\ touchPc' = "t_defer"
    /\ UNCHANGED <<fatal, device, usbintf, handleSets, tintf>>
    /\ UNCHANGED touchFrame

\* readTouchInput, line 360: the deferred usbintf.Close() runs
TouchDeferClose ==
    /\ Started /\ touchPc = "t_defer"
    /\ touchPc' = "t_err"
    /\ tintf' = 0
    /\ UNCHANGED <<fatal, shared>>
    /\ UNCHANGED touchFrame
    /\ SetClosed(closed, intfClosed \cup {tintf})

\* Mutant of TouchErr: the touch reader also drops the device handle.
TouchErrDropsHandle ==
    /\ Started /\ touchPc = "t_err"
    /\ connected' = FALSE
    /\ device' = 0
    /\ touchPc' = "t_loop"
    /\ UNCHANGED <<fatal, usbintf, tintf>>
    /\ UNCHANGED touchFrame
    /\ KeepClosed

\* StartTouchMonitor, lines 331-336: connected = false; time.Sleep(time.Second);
\* next iteration
TouchErr ==
    /\ Started /\ touchPc = "t_err"
    /\ connected' = FALSE
    /\ touchPc' = "t_loop"
    /\ UNCHANGED <<fatal, device, usbintf, handleSets, tintf>>
    /\ UNCHANGED touchFrame

Touch == TouchLoop \/ TouchRead \/ TouchNoDevice \/ TouchDeferClose \/ TouchErr

Main == InitOpen \/ InitSetup \/ InitAssign

Next == EnvChange \/ Main \/ Monitor \/ Scheduler \/ Touch

Spec == Init /\ [][Next]_vars

\* Every worker is a goroutine the Go scheduler keeps running; the bus owes
\* nothing.
LiveSpec ==
    /\ Spec
    /\ WF_vars(Main) /\ WF_vars(Monitor) /\ WF_vars(Scheduler) /\ WF_vars(Touch)

\* A transmission on the first handle is under way (sendImageDataInChunks
\* has passed line 259 in the ticker case), as Spec reaches it when the
\* device was found at start-up.
ResetInit ==
    /\ envState \in EnvStates
    /\ fatal = "none"
    /\ device = 1
    /\ usbintf = 1
    /\ connected = TRUE
    /\ closed = {}
    /\ intfClosed = {}
    /\ deviceMutex = "free"
    /\ mainPc = "started"
    /\ monPc = "idle"
    /\ monI = 0
    /\ newDevice = 0
    /\ attempts = 0
    /\ waits = <<>>
    /\ schedPc = "writing"
    /\ schedEv = "tick"
    /\ touchPc = "t_loop"
    /\ tintf = 0
    /\ AggInit /\ config = "12h"
    /\ weatherChan = <<>>
    /\ EncIdle
    /\ DrawIdle

ResetNext ==
    \/ EnvChange \/ Monitor
    \/ SendOk \/ SendDisconnected \/ SendError \/ DrawDisplayFail
    \/ ResetClose \/ ResetNil \/ ResetFlag

\* That one transmission to its end, with the reset when it fails, while the
\* Monitor loop runs; the Scheduler takes no further event.
ResetSpec == ResetInit /\ [][ResetNext]_vars

(***************************************************************************)
(* SchedSpec: the Scheduler's event loop with what its events carry,       *)
(* display.go:64-128                                                       *)
(***************************************************************************)
\* Seconds of clock the specification follows.
MaxElapsed == 31

\* display.go:109: 30*time.Second
staleWindow == 30

aggFrame ==
    <<envState, mainPc, monVars, touchVars, encVars, drawVars, flowVars>>

\* display.go:109: time.Since(state.lastWeatherUpdate) > 30*time.Second
Stale(t) == t = <<>> \/ now - t[1] > staleWindow

\* updateDisplay, lines 162-168: the CreateScreenConfig built from the state
Snapshot(s) ==
    [cputemp |-> s.cpu, gputemp |-> s.gpu, network |-> s.network,
     weather |-> s.weather]

\* lines 94, 116, 121 and updateDisplay, line 148: the case calls
\* updateDisplay; deviceMutex.Lock()
CallUpdateDisplay(ev) ==
    /\ deviceMutex = "free"
    /\ deviceMutex' = "sched"
    /\ schedEv' = ev
    /\ schedPc' = "ud_check"

\* Mutant of HandleTemps: the temperature case renders at once.
HandleTempsRenders ==
    /\ Started /\ schedPc = "select"
    /\ \E temps \in TempReadings :
         state' = [state EXCEPT !.cpu = temps.CPU, !.gpu = temps.GPU]
    /\ CallUpdateDisplay("tick")
    /\ UNCHANGED <<fatal, shared, handleSets>>
    /\ UNCHANGED <<now, refreshRate, weatherChan, configUpdate, weatherUpdate,
                   config, textSettings, lastFrame>>
    /\ UNCHANGED aggFrame

\* lines 86-87: case temps := <-tempChan
HandleTemps ==
    /\ Started /\ schedPc = "select"
    /\ \E temps \in TempReadings :
         state' = [state EXCEPT !.cpu = temps.CPU, !.gpu = temps.GPU]
    /\ UNCHANGED <<fatal, shared, handleSets, deviceMutex, schedPc, schedEv>>
    /\ UNCHANGED <<now, refreshRate, weatherChan, configUpdate, weatherUpdate,
                   config, textSettings, lastFrame>>
    /\ UNCHANGED aggFrame

\* lines 88-89: case network := <-networkChan
HandleNetwork ==
    /\ Started /\ schedPc = "select"
    /\ \E network \in NetReadings : state' = [state EXCEPT !.network = network]
    /\ UNCHANGED <<fatal, shared, handleSets, deviceMutex, schedPc, schedEv>>
    /\ UNCHANGED <<now, refreshRate, weatherChan, configUpdate, weatherUpdate,
                   config, textSettings, lastFrame>>
    /\ UNCHANGED aggFrame

\* Mutant of HandleWeather: a weather update is dropped while disconnected.
HandleWeatherDropsWhenDisconnected ==
    /\ Started /\ schedPc = "select"
    /\ weatherChan # <<>>
    /\ weatherChan' = <<>>
    /\ IF connected
         THEN /\ state' = [state EXCEPT !.weather = weatherChan[1],
                                        !.lastWeatherUpdate = <<now>>]
              /\ CallUpdateDisplay("weather")
         ELSE UNCHANGED <<state, deviceMutex, schedPc, schedEv>>
    /\ UNCHANGED <<fatal, shared, handleSets>>
    /\ UNCHANGED <<now, refreshRate, configUpdate, weatherUpdate, config,
                   textSettings, lastFrame>>
    /\ UNCHANGED aggFrame

\* Mutant of HandleWeather: the update is merged and left for the next tick.
HandleWeatherWaitsForTick ==
    /\ Started /\ schedPc = "select"
    /\ weatherChan # <<>>
    /\ weatherChan' = <<>>
    /\ state' = [state EXCEPT !.weather = weatherChan[1],
                              !.lastWeatherUpdate = <<now>>]
    /\ UNCHANGED <<fatal, shared, handleSets, deviceMutex, schedPc, schedEv>>
    /\ UNCHANGED <<now, refreshRate, configUpdate, weatherUpdate, config,
                   textSettings, lastFrame>>
    /\ UNCHANGED aggFrame

\* lines 90-97: case weather := <-weatherChan
HandleWeather ==
    /\ Started /\ schedPc = "select"
    /\ weatherChan # <<>>
    /\ weatherChan' = <<>>
    /\ LET weather == weatherChan[1] IN
         IF weather # "nil"
           THEN /\ state' = [state EXCEPT !.weather = weather,
                                          !.lastWeatherUpdate = <<now>>]
                /\ CallUpdateDisplay("weather")
           ELSE UNCHANGED <<state, deviceMutex, schedPc, schedEv>>
    /\ UNCHANGED <<fatal, shared, handleSets>>
    /\ UNCHANGED <<now, refreshRate, configUpdate, weatherUpdate, config,
                   textSettings, lastFrame>>
    /\ UNCHANGED aggFrame

\* Mutant of HandleConfig: the refresh request is sent only when the last
\* refresh is stale.
HandleConfigRequestsWhenStale ==
    /\ Started /\ schedPc = "select"
    /\ configUpdate = 1
    /\ configUpdate' = 0
    /\ textSettings' = config
    /\ weatherUpdate' = IF Stale(state.lastWeatherUpdate) THEN 1 ELSE weatherUpdate
    /\ IF Stale(state.lastWeatherUpdate)
         THEN \/ /\ \E weather \in WeatherInfos :
                      state' = [state EXCEPT !.weather = weather,
                                             !.lastWeatherUpdate = <<now>>]
                 /\ CallUpdateDisplay("config")
                 /\ fatal' = fatal
              \/ /\ fatal' = "weather"
                 /\ UNCHANGED <<state, deviceMutex, schedPc, schedEv>>
         ELSE /\ CallUpdateDisplay("config")
              /\ UNCHANGED <<state, fatal>>
    /\ UNCHANGED <<shared, handleSets>>
    /\ UNCHANGED <<now, refreshRate, weatherChan, config, lastFrame>>
    /\ UNCHANGED aggFrame

\* lines 98-119: case <-configUpdate.  GetWeatherData (weather.go:27-50)
\* returns a WeatherInfo or ends the process with log.Fatalf.
HandleConfig ==
    /\ Started /\ schedPc = "select"
    /\ configUpdate = 1
    /\ configUpdate' = 0
    /\ textSettings' = config
    /\ weatherUpdate' = 1
    /\ IF Stale(state.lastWeatherUpdate)
         THEN \/ /\ \E weather \in WeatherInfos :
                      state' = [state EXCEPT !.weather = weather,
                                             !.lastWeatherUpdate = <<now>>]
                 /\ CallUpdateDisplay("config")
                 /\ fatal' = fatal
              \/ /\ fatal' = "weather"
                 /\ UNCHANGED <<state, deviceMutex, schedPc, schedEv>>
         ELSE /\ CallUpdateDisplay("config")
              /\ UNCHANGED <<state, fatal>>
    /\ UNCHANGED <<shared, handleSets>>
    /\ UNCHANGED <<now, refreshRate, weatherChan, config, lastFrame>>
    /\ UNCHANGED aggFrame

\* Mutant of HandleTick: a tick is skipped when nothing changed since the
\* last frame.
HandleTickIfDirty ==
    /\ Started /\ schedPc = "select"
    /\ refreshRate = 1
    /\ refreshRate' = 0
    /\ IF lastFrame = <<Snapshot(state)>>
         THEN UNCHANGED <<deviceMutex, schedPc, schedEv>>
         ELSE CallUpdateDisplay("tick")
    /\ UNCHANGED <<fatal, shared, handleSets>>
    /\ UNCHANGED <<state, now, weatherChan, configUpdate, weatherUpdate, config,
                   textSettings, lastFrame>>
    /\ UNCHANGED aggFrame

\* Mutant of HandleTick: a tick is handled whether or not the previous
\* event's handling has returned.
HandleTickAnytime ==
    /\ Started
    /\ refreshRate = 1
    /\ refreshRate' = 0
    /\ deviceMutex' = "sched"
    /\ schedEv' = "tick"
    /\ schedPc' = "ud_check"
    /\ UNCHANGED <<fatal, shared, handleSets>>
    /\ UNCHANGED <<state, now, weatherChan, configUpdate, weatherUpdate, config,
                   textSettings, lastFrame>>
    /\ UNCHANGED aggFrame

\* lines 120-124: case <-refreshRate.C
HandleTick ==
    /\ Started /\ schedPc = "select"
    /\ refreshRate = 1
    /\ refreshRate' = 0
    /\ CallUpdateDisplay("tick")
    /\ UNCHANGED <<fatal, shared, handleSets>>
    /\ UNCHANGED <<state, now, weatherChan, configUpdate, weatherUpdate, config,
                   textSettings, lastFrame>>
    /\ UNCHANGED aggFrame

\* drawDisplay, lines 203-232: if device == nil { return nil }; the text
\* settings are set from the configuration and the frame is drawn
Render ==
    /\ Started /\ schedPc = "dd_check"
    /\ IF device = 0
         THEN schedPc' = "select" /\ textSettings' = textSettings
         ELSE schedPc' = "send_check" /\ textSettings' = config
    /\ UNCHANGED <<fatal, shared, handleSets, deviceMutex, schedEv>>
    /\ UNCHANGED <<state, now, refreshRate, weatherChan, configUpdate,
                   weatherUpdate, config, lastFrame>>
    /\ UNCHANGED aggFrame

\* sendImageDataInChunks, lines 274-313: every chunk of the frame is written
\* and flushed; return nil
Transmit ==
    /\ Started /\ schedPc = "writing"
    /\ envState # "absent"
    /\ schedPc' = "select"
    /\ lastFrame' = <<Snapshot(state)>>
    /\ UNCHANGED <<fatal, shared, handleSets, deviceMutex, schedEv>>
    /\ UNCHANGED <<state, now, refreshRate, weatherChan, configUpdate,
                   weatherUpdate, config, textSettings>>
    /\ UNCHANGED aggFrame

\* The producers and the clock
envFrame == <<shared, handleSets, deviceMutex, schedPc, schedEv>>

\* display.go:80: the ticker; a tick is dropped while one is waiting
RefreshTick ==
    /\ Started
    /\ refreshRate = 0
    /\ refreshRate' = 1
    /\ UNCHANGED <<fatal, state, now, weatherChan, configUpdate, weatherUpdate,
                   config, textSettings, lastFrame>>
    /\ UNCHANGED <<envFrame, aggFrame>>

\* time passing
Elapse ==
    /\ Started
    /\ \E d \in {staleWindow, staleWindow + 1} :
         now + d <= MaxElapsed /\ now' = now + d
    /\ UNCHANGED <<fatal, state, refreshRate, weatherChan, configUpdate,
                   weatherUpdate, config, textSettings, lastFrame>>
    /\ UNCHANGED <<envFrame, aggFrame>>

\* StartWeatherMonitor, part_008:68-107: updateWeather.  The lookup returns
\* a WeatherInfo, sent without blocking, or ends the process.
updateWeather ==
    \/ /\ \E info \in WeatherInfos :
            weatherChan' = IF weatherChan = <<>> THEN <<info>> ELSE weatherChan
       /\ fatal' = fatal
    \/ /\ fatal' = "weather"
       /\ weatherChan' = weatherChan

\* part_008:114-118: case <-ticker.C: if *connected { updateWeather() }
WeatherTicker ==
    /\ Started
    /\ connected
    /\ updateWeather
    /\ UNCHANGED <<state, now, refreshRate, configUpdate, weatherUpdate, config,
                   textSettings, lastFrame>>
    /\ UNCHANGED <<envFrame, aggFrame>>

\* part_008:119-125: case <-updateChan: if *connected { updateWeather() }
WeatherRequest ==
    /\ Started
    /\ weatherUpdate = 1
    /\ weatherUpdate' = 0
    /\ IF connected THEN updateWeather ELSE UNCHANGED <<weatherChan, fatal>>
    /\ UNCHANGED <<state, now, refreshRate, configUpdate, config, textSettings,
                   lastFrame>>
    /\ UNCHANGED <<envFrame, aggFrame>>

\* draw.go:514-547: WatchConfig loads a changed configuration file
WatchConfig ==
    /\ Started
    /\ \E c \in Prefs, locationChanged \in BOOLEAN :
         /\ c # config \/ locationChanged
         /\ config' = c
         /\ weatherUpdate' = IF locationChanged THEN 1 ELSE weatherUpdate
    /\ configUpdate' = 1
    /\ UNCHANGED <<fatal, state, now, refreshRate, weatherChan, textSettings,
                   lastFrame>>
    /\ UNCHANGED <<envFrame, aggFrame>>

\* The other workers' writes to the session.
\* draw.go:332, 392 and connectnexus.go:109: connected = false
SessionLost ==
    /\ Started
    /\ connected
    /\ connected' = FALSE
    /\ UNCHANGED <<fatal, device, usbintf, handleSets, deviceMutex, schedPc,
                   schedEv, aggVars>>
    /\ UNCHANGED aggFrame

\* connectnexus.go:58, 77, 131-132: a reconnection succeeds
SessionRestored ==
    /\ Started
    /\ ~connected
    /\ envState = "good"
    /\ LET h == FreshHandle IN
        /\ device' = h
        /\ usbintf' = h
        /\ connected' = TRUE
        /\ UNCHANGED <<fatal, deviceMutex, schedPc, schedEv, aggVars>>
        /\ UNCHANGED aggFrame
        /\ SetClosed(closed \ {h}, intfClosed \ {h})

\* The state StartNexus (nexus.go:48-97) leaves when the device was found,
\* or was not, and every worker has been started; the weather monitor's
\* initial updateWeather() (part_008:111) has sent its value or not.
SchedInit ==
    /\ envState = "good"
    /\ fatal = "none"
    /\ \E h \in {0, 1} : device = h /\ usbintf = h /\ connected = (h # 0)
    /\ closed = {}
    /\ intfClosed = {}
    /\ deviceMutex = "free"
    /\ mainPc = "started"
    /\ monPc = "idle"
    /\ monI = 0
    /\ newDevice = 0
    /\ attempts = 0
    /\ waits = <<>>
    /\ schedPc = "select"
    /\ schedEv = "tick"
    /\ touchPc = "t_loop"
    /\ tintf = 0
    /\ AggInit
    /\ weatherChan \in {<<>>} \cup {<<info>> : info \in WeatherInfos}
    /\ EncIdle
    /\ DrawIdle

SchedNext ==
    \/ HandleTemps \/ HandleNetwork \/ HandleWeather \/ HandleConfig
    \/ HandleTick
    \/ UpdateDisplayCheck \/ Render \/ SendCheck \/ Transmit
    \/ SendDisconnected \/ SendError \/ DrawDisplayFail
    \/ ResetClose \/ ResetNil \/ ResetFlag
    \/ RefreshTick \/ WeatherTicker \/ WeatherRequest \/ WatchConfig
    \/ SessionLost \/ SessionRestored

\* The five kinds of event in every interleaving, the clock standing still.
SchedSpec == SchedInit /\ [][SchedNext]_vars

\* Without the ticker case, so without resetDevice, which only it calls.
RefreshNext ==
    \/ HandleWeather \/ HandleConfig
    \/ UpdateDisplayCheck \/ Render \/ SendCheck \/ Transmit
    \/ SendDisconnected \/ SendError \/ DrawDisplayFail
    \/ Elapse \/ WeatherTicker \/ WeatherRequest \/ WatchConfig
    \/ SessionLost \/ SessionRestored

\* The weather and configuration events with the clock running.
RefreshSpec == SchedInit /\ [][RefreshNext]_vars

(***************************************************************************)
(* FlowSpec: the channels between the producers and the Scheduler's        *)
(* select, with each producer's own position.  tempChan and networkChan    *)
(* are unbuffered (part_008:150, 200), weatherChan, updateCh and the       *)
(* ticker's channel hold one element.                                      *)
(***************************************************************************)
Sources == {"temps", "network", "weather", "config", "tick"}

\* An event of the source is there for the select of display.go:85 to take.
Pending(src) ==
    CASE src = "temps" -> tempPc = "send"
      [] src = "network" -> netPc = "send"
      [] src = "weather" -> weatherChan # <<>>
      [] src = "config" -> configUpdate = 1
      [] src = "tick" -> refreshRate = 1

\* The events followed from the start to the last arrival.
MaxArrivals == 3

\* An event of the source becomes available.
Arrive(src) ==
    /\ Len(order) < MaxArrivals
    /\ order' = Append(order, src)

flowFrame ==
    <<envState, shared, handleSets, deviceMutex, mainPc, monVars, schedPc,
      schedEv, touchVars, encVars, drawVars>>

\* part_008:158-172: if !*connected { continue }; the sensors are read and
\* the loop is at systemTempChan <- SystemTemperature{...}
TempSample ==
    /\ Started /\ tempPc = "poll"
    /\ connected
    /\ tempPc' = "send"
    /\ Arrive("temps")
    /\ UNCHANGED <<fatal, netPc, wsInfo, aggVars>>
    /\ UNCHANGED flowFrame

\* part_008:202-212: the same loop of StartNetworkMonitor, at
\* networkChan <- stats
NetSample ==
    /\ Started /\ netPc = "poll"
    /\ connected
    /\ netPc' = "send"
    /\ Arrive("network")
    /\ UNCHANGED <<fatal, tempPc, wsInfo, aggVars>>
    /\ UNCHANGED flowFrame

\* display.go:86-87 with part_008:172-176: the select takes the value, which
\* ends the monitor's send; the monitor sleeps and polls again
RecvTemps ==
    /\ Started /\ schedPc = "select"
    /\ tempPc = "send"
    /\ tempPc' = "poll"
    /\ \E temps \in TempReadings :
         state' = [state EXCEPT !.cpu = temps.CPU, !.gpu = temps.GPU]
    /\ UNCHANGED <<fatal, netPc, wsInfo, order>>
    /\ UNCHANGED <<now, refreshRate, weatherChan, configUpdate, weatherUpdate,
                   config, textSettings, lastFrame>>
    /\ UNCHANGED flowFrame

\* display.go:88-89 with part_008:212-216
RecvNetwork ==
    /\ Started /\ schedPc = "select"
    /\ netPc = "send"
    /\ netPc' = "poll"
    /\ \E network \in NetReadings : state' = [state EXCEPT !.network = network]
    /\ UNCHANGED <<fatal, tempPc, wsInfo, order>>
    /\ UNCHANGED <<now, refreshRate, weatherChan, configUpdate, weatherUpdate,
                   config, textSettings, lastFrame>>
    /\ UNCHANGED flowFrame

\* display.go:80: the ticker sends a tick unless one is waiting
TickArrives ==
    /\ Started
    /\ refreshRate = 0
    /\ refreshRate' = 1
    /\ Arrive("tick")
    /\ UNCHANGED <<fatal, tempPc, netPc, wsInfo>>
    /\ UNCHANGED <<state, now, weatherChan, configUpdate, weatherUpdate, config,
                   textSettings, lastFrame>>
    /\ UNCHANGED flowFrame

\* part_008:68-107, 114-125: updateWeather on the monitor's ticker, which
\* leaves a request waiting, or on a request.  The lookup ends the process or returns a value, kept as
\* state.info and sent by "select { case weatherChan <- info: default: }".
WeatherArrives ==
    /\ Started
    /\ connected
    /\ \/ /\ \E info \in WeatherInfos :
               /\ wsInfo' = info
               /\ weatherChan' =
                    IF weatherChan = <<>> THEN <<info>> ELSE weatherChan
          /\ IF weatherChan = <<>> THEN Arrive("weather") ELSE order' = order
          /\ fatal' = fatal
       \/ /\ fatal' = "weather"
          /\ UNCHANGED <<wsInfo, weatherChan, order>>
    /\ weatherUpdate' \in {weatherUpdate, 0}
    /\ UNCHANGED <<tempPc, netPc>>
    /\ UNCHANGED <<state, now, refreshRate, configUpdate, config, textSettings,
                   lastFrame>>
    /\ UNCHANGED flowFrame

\* draw.go:514-547: WatchConfig, as in WatchConfig above; the signal on
\* updateCh is new unless one is waiting
ConfigArrives ==
    /\ Started
    /\ \E c \in Prefs, locationChanged \in BOOLEAN :
         /\ c # config \/ locationChanged
         /\ config' = c
         /\ weatherUpdate' = IF locationChanged THEN 1 ELSE weatherUpdate
    /\ configUpdate' = 1
    /\ IF configUpdate = 0 THEN Arrive("config") ELSE order' = order
    /\ UNCHANGED <<fatal, tempPc, netPc, wsInfo>>
    /\ UNCHANGED <<state, now, refreshRate, weatherChan, textSettings,
                   lastFrame>>
    /\ UNCHANGED flowFrame

\* Every worker has been started and the device was found (nexus.go:48-91).
FlowInit ==
    /\ envState = "good"
    /\ fatal = "none"
    /\ device = 1 /\ usbintf = 1 /\ connected = TRUE
    /\ closed = {}
    /\ intfClosed = {}
    /\ deviceMutex = "free"
    /\ mainPc = "started"
    /\ monPc = "idle"
    /\ monI = 0
    /\ newDevice = 0
    /\ attempts = 0
    /\ waits = <<>>
    /\ schedPc = "select"
    /\ schedEv = "tick"
    /\ touchPc = "t_loop"
    /\ tintf = 0
    /\ AggInit
    /\ weatherChan = <<>>
    /\ EncIdle
    /\ DrawIdle

FlowNext ==
    \/ TempSample \/ NetSample \/ TickArrives \/ WeatherArrives
    \/ ConfigArrives
    \/ RecvTemps \/ RecvNetwork \/ HandleWeather \/ HandleConfig
    \/ HandleTick
    \/ UpdateDisplayCheck \/ Render \/ SendCheck \/ Transmit

\* The five sources and the Scheduler on a session that stays connected.
FlowSpec == FlowInit /\ [][FlowNext]_vars

\* The Scheduler goroutine keeps running, and a select case that is ready
\* again and again is chosen at some time (the Go runtime picks among the
\* ready cases at random); the file watcher and the other producers owe
\* nothing.
FlowLiveSpec ==
    /\ FlowSpec
    /\ WF_vars(UpdateDisplayCheck \/ Render \/ SendCheck \/ Transmit)
    /\ SF_vars(HandleConfig)

(***************************************************************************)
(* EncSpec: one call of sendImageDataInChunks, display.go:243-314          *)
(***************************************************************************)
\* nexus.go:20-21
width == 640
height == 48

\* display.go:261, 271: 1024*4, the size of data and of the bufio.Writer
chunkSize == 1024 * 4

\* The frames followed: imageData is given by its length and by a seed its
\* bytes are computed from.
FrameSeeds == {3, 200}
FrameLens == {width * height * 4, width * height * 4 - 4}

\* imageData[k]: the four bytes of a pixel differ from each other and from
\* pixel to pixel, the alpha byte included.
ImageByte(fr, k) == ((fr.seed + 7 * k) + (k \div 4)) % 256

\* Mutant of Quad: the components are copied in the order they come in.
QuadUnswapped(fr, num2) ==
    <<ImageByte(fr, num2 * 4), ImageByte(fr, num2 * 4 + 1),
      ImageByte(fr, num2 * 4 + 2), 255>>

\* lines 288-291: the four bytes stored for pixel num2
Quad(fr, num2) ==
    <<ImageByte(fr, num2 * 4 + 2), ImageByte(fr, num2 * 4 + 1),
      ImageByte(fr, num2 * 4), 255>>

\* line 274: i <= 120
LoopCond(i) == i <= 120

\* Mutant of Copied: the loop stops on num alone.
CopiedNoFrameBound(i) == 255

\* line 287: how many times the inner loop runs for chunk i
\* (num < 255 && num2 < 30720, with num2 starting at i * 254)
Copied(i) ==
    LET left == 30720 - i * 254 IN
      IF left <= 0 THEN 0 ELSE IF left < 255 THEN left ELSE 255

\* lines 261-269: data := make([]byte, 1024*4) and its first eight bytes
NewData ==
    [k \in 0..(chunkSize - 1) |->
       IF k = 0 THEN 2 ELSE IF k = 1 THEN 5 ELSE IF k = 2 THEN 31
       ELSE IF k = 6 THEN 248 ELSE IF k = 7 THEN 3 ELSE 0]

\* Mutant of Fill: the chunk index is not stored.
FillKeepsIndex(d, i, fr) ==
    [k \in 0..(chunkSize - 1) |->
       IF k = 3 THEN (IF i # 120 THEN 0 ELSE 1)
       ELSE IF k = 6 THEN (IF i # 120 THEN 248 ELSE 192)
       ELSE IF k >= 8 /\ (k - 8) \div 4 < Copied(i)
         THEN Quad(fr, i * 254 + (k - 8) \div 4)[((k - 8) % 4) + 1]
       ELSE d[k]]

\* lines 275-293: one pass of the loop body over data, up to the Write
Fill(d, i, fr) ==
    [k \in 0..(chunkSize - 1) |->
       IF k = 4 THEN i % 256
       ELSE IF k = 3 THEN (IF i # 120 THEN 0 ELSE 1)
       ELSE IF k = 6 THEN (IF i # 120 THEN 248 ELSE 192)
       ELSE IF k >= 8 /\ (k - 8) \div 4 < Copied(i)
         THEN Quad(fr, i * 254 + (k - 8) \div 4)[((k - 8) % 4) + 1]
       ELSE d[k]]

\* line 287: the pixels of imageData the inner loop reads for chunk i
PixelsRead(i) == {i * 254 + num : num \in 0..(Copied(i) - 1)}

\* The chunks writer.Write has accepted in this call.
Accepted == wire + Len(writerBuf)

\* The positions of the chunk sequence at which the first call's chunk is
\* kept for comparison with the second call's.
Probes == {0, 120}

\* The calls of sendImageDataInChunks followed one after the other.
MaxCalls == 2

\* What writer.Write and writer.Flush can get back from the endpoint:
\* "libusb: device was disconnected", or any other error
DevErrs == {"disconnected", "other"}

\* The ways sendImageDataInChunks returns: nil (lines 246, 302, 313) or an
\* error (lines 250, 258, 304, 310)
NilReturns == {"skipped", "dropped", "done"}
ErrReturns == {"mismatch", "no_endpoint", "write_failed", "flush_failed"}

encFrame ==
    <<envState, fatal, device, usbintf, handleSets, deviceMutex, mainPc,
      monVars, schedPc, schedEv, touchVars, aggVars, drawVars, flowVars>>

\* Mutant of EncCheck: the endpoint is looked up before the length is tested.
EncCheckEndpointFirst ==
    /\ encPc = "check"
    /\ IF ~connected THEN encPc' = "skipped" /\ data' = data
       ELSE IF usbintf \in intfClosed
         THEN encPc' = "no_endpoint" /\ data' = data
       ELSE IF frame.len # width * height * 4
         THEN encPc' = "mismatch" /\ data' = data
       ELSE encPc' = "loop" /\ data' = NewData
    /\ UNCHANGED <<connected, frame, encI, writerBuf, wire, reads, devErr,
                   ddRet, call, probe, seen>>
    /\ UNCHANGED encFrame

\* lines 244-259: if !connected { return nil }; the length test;
\* usbintf.OutEndpoint(2); lines 261-271
EncCheck ==
    /\ encPc = "check"
    /\ IF ~connected THEN encPc' = "skipped" /\ data' = data
       ELSE IF frame.len # width * height * 4
         THEN encPc' = "mismatch" /\ data' = data
       ELSE IF usbintf \in intfClosed
         THEN encPc' = "no_endpoint" /\ data' = data
       ELSE encPc' = "loop" /\ data' = NewData
    /\ UNCHANGED <<connected, frame, encI, writerBuf, wire, reads, devErr,
                   ddRet, call, probe, seen>>
    /\ UNCHANGED encFrame

\* Mutant of EncChunk: a full writer passes the new chunk on and keeps the
\* one it holds.
EncChunkKeepsFirst ==
    /\ encPc = "loop"
    /\ LoopCond(encI)
    /\ data' = Fill(data, encI, frame)
    /\ reads' = PixelsRead(encI)
    /\ wire' = IF writerBuf = <<>> THEN wire ELSE wire + 1
    /\ writerBuf' = IF writerBuf = <<>> THEN <<data'>> ELSE writerBuf
    /\ seen' = IF call = 1 /\ Accepted = probe THEN data' ELSE seen
    /\ encI' = encI + 1
    /\ UNCHANGED <<connected, frame, encPc, devErr, ddRet, call, probe>>
    /\ UNCHANGED encFrame

\* lines 274-296: the loop condition holds; the header and the pixels of
\* chunk i are stored in data; writer.Write(data) returns nil.  A
\* bufio.Writer of 4096 bytes given 4096 bytes keeps them when it is empty;
\* when it is full it first writes what it holds to the endpoint, then
\* keeps the new bytes.
EncChunk ==
    /\ encPc = "loop"
    /\ LoopCond(encI)
    /\ data' = Fill(data, encI, frame)
    /\ reads' = PixelsRead(encI)
    /\ wire' = IF writerBuf = <<>> THEN wire ELSE wire + 1
    /\ writerBuf' = <<data'>>
    /\ seen' = IF call = 1 /\ Accepted = probe THEN data' ELSE seen
    /\ encI' = encI + 1
    /\ UNCHANGED <<connected, frame, encPc, devErr, ddRet, call, probe>>
    /\ UNCHANGED encFrame

\* Mutant of EncChunkFail: the flag is left as it is.
EncChunkFailKeepsFlag ==
    /\ encPc = "loop"
    /\ LoopCond(encI)
    /\ writerBuf # <<>>
    /\ data' = Fill(data, encI, frame)
    /\ reads' = PixelsRead(encI)
    /\ \E e \in DevErrs :
         /\ devErr' = e
         /\ encPc' = IF e = "disconnected" THEN "dropped" ELSE "write_failed"
    /\ UNCHANGED <<connected, frame, encI, writerBuf, wire, ddRet, call,
                   probe, seen>>
    /\ UNCHANGED encFrame

\* lines 274-305: the same, but the endpoint write inside writer.Write
\* fails: connected = false; return nil for "libusb: device was
\* disconnected", the error otherwise
EncChunkFail ==
    /\ encPc = "loop"
    /\ LoopCond(encI)
    /\ writerBuf # <<>>
    /\ data' = Fill(data, encI, frame)
    /\ reads' = PixelsRead(encI)
    /\ connected' = FALSE
    /\ \E e \in DevErrs :
         /\ devErr' = e
         /\ encPc' = IF e = "disconnected" THEN "dropped" ELSE "write_failed"
    /\ UNCHANGED <<frame, encI, writerBuf, wire, ddRet, call, probe, seen>>
    /\ UNCHANGED encFrame

\* line 274: the loop condition fails
EncLoopEnd ==
    /\ encPc = "loop"
    /\ ~LoopCond(encI)
    /\ encPc' = "flush"
    /\ UNCHANGED <<connected, frame, encI, data, writerBuf, wire, reads,
                   devErr, ddRet, call, probe, seen>>
    /\ UNCHANGED encFrame

\* lines 309-313: writer.Flush() writes what the writer holds; return nil
EncFlush ==
    /\ encPc = "flush"
    /\ wire' = IF writerBuf = <<>> THEN wire ELSE wire + 1
    /\ writerBuf' = <<>>
    /\ encPc' = "done"
    /\ UNCHANGED <<connected, frame, encI, data, reads, devErr, ddRet, call,
                   probe, seen>>
    /\ UNCHANGED encFrame

\* lines 309-311: the endpoint write inside writer.Flush() fails; the error
\* is returned whatever it is, and connected is not written
EncFlushFail ==
    /\ encPc = "flush"
    /\ writerBuf # <<>>
    /\ \E e \in DevErrs : devErr' = e
    /\ encPc' = "flush_failed"
    /\ UNCHANGED <<connected, frame, encI, data, writerBuf, wire, reads,
                   ddRet, call, probe, seen>>
    /\ UNCHANGED encFrame

\* drawDisplay, lines 235-240: on an error connected = false and the error
\* is returned wrapped; nil otherwise
DrawDisplaySent ==
    /\ encPc \in NilReturns \cup ErrReturns
    /\ ddRet' = IF encPc \in NilReturns THEN "nil" ELSE encPc
    /\ connected' = IF encPc \in NilReturns THEN connected ELSE FALSE
    /\ encPc' = "returned"
    /\ UNCHANGED <<frame, encI, data, writerBuf, wire, reads, devErr, call,
                   probe, seen>>
    /\ UNCHANGED encFrame

\* Mutant of EncAgain: the loop goes on from the index the last call
\* stopped at.
EncAgainResumes ==
    /\ encPc = "returned"
    /\ call < MaxCalls
    /\ call' = call + 1
    /\ encPc' = "check"
    /\ encI' = IF encI <= 120 THEN encI ELSE 0
    /\ data' = <<>>
    /\ writerBuf' = <<>>
    /\ wire' = 0
    /\ reads' = {}
    /\ devErr' = "none"
    /\ ddRet' = "none"
    /\ \E c \in BOOLEAN : connected' = c
    /\ UNCHANGED <<frame, probe, seen>>
    /\ UNCHANGED encFrame

\* drawDisplay is called again and calls sendImageDataInChunks with a frame
\* of the same bytes: i, data, writer and err are new variables of the new
\* call (lines 255-274); connected is whatever the session now says.
EncAgain ==
    /\ encPc = "returned"
    /\ call < MaxCalls
    /\ call' = call + 1
    /\ encPc' = "check"
    /\ encI' = 0
    /\ data' = <<>>
    /\ writerBuf' = <<>>
    /\ wire' = 0
    /\ reads' = {}
    /\ devErr' = "none"
    /\ ddRet' = "none"
    /\ \E c \in BOOLEAN : connected' = c
    /\ UNCHANGED <<frame, probe, seen>>
    /\ UNCHANGED encFrame

\* The session around a call of sendImageDataInChunks: a device is held.
EncSession ==
    /\ envState = "good"
    /\ fatal = "none"
    /\ device = 1
    /\ usbintf = 1
    /\ closed = {}
    /\ deviceMutex = "free"
    /\ mainPc = "started"
    /\ monPc = "idle"
    /\ monI = 0
    /\ newDevice = 0
    /\ attempts = 0
    /\ waits = <<>>
    /\ schedPc = "send_check"
    /\ schedEv = "tick"
    /\ touchPc = "t_loop"
    /\ tintf = 0
    /\ AggInit
    /\ weatherChan = <<>>
    /\ DrawIdle
    /\ encPc = "check"
    /\ encI = 0
    /\ data = <<>>
    /\ writerBuf = <<>>
    /\ wire = 0
    /\ reads = {}
    /\ devErr = "none"
    /\ ddRet = "none"
    /\ call = 1
    /\ seen = <<>>

\* drawDisplay, line 235: sendImageDataInChunks(imageBuffer) is called, in
\* any state of the session the call can meet
EncInit ==
    /\ EncSession
    /\ connected \in BOOLEAN
    /\ intfClosed \in {{}, {1}}
    /\ frame \in [len : FrameLens, seed : FrameSeeds]
    /\ probe = -1

EncNext ==
    \/ EncCheck \/ EncChunk \/ EncChunkFail \/ EncLoopEnd
    \/ EncFlush \/ EncFlushFail \/ DrawDisplaySent

EncSpec == EncInit /\ [][EncNext]_vars

\* Two calls with the same frame, the first one running to its end or cut
\* short by a write error.
EncTwiceInit ==
    /\ EncSession
    /\ connected = TRUE
    /\ intfClosed = {}
    /\ frame = [len |-> width * height * 4, seed |-> 200]
    /\ probe \in Probes

EncTwiceNext == EncNext \/ EncAgain

EncTwiceSpec == EncTwiceInit /\ [][EncTwiceNext]_vars

(***************************************************************************)
(* DrawSpec: drawDisplay, display.go:202-241, with CreateImageContext,     *)
(* draw.go:40-83, and the Draw functions, draw.go:99-175.  An image is     *)
(* written by the length of its Pix, the pixel its background is filled    *)
(* with, and the elements drawn on it.                                     *)
(***************************************************************************)
\* cfg.BackgroundColor values of a configuration file: names of colorMap
\* and a string that names no colour
BgColors == {"black", "red", "teal", "nosuchcolor"}

\* draw.go:194-212, the entries of the names followed
colorMap ==
    [black |-> <<0, 0, 0, 255>>, red |-> <<255, 0, 0, 255>>,
     teal |-> <<0, 128, 128, 255>>]

\* draw.go:224-239, for strings that are not of the form "#RRGGBB"
parseColor(colorStr, defaultColor) ==
    IF colorStr \in DOMAIN colorMap THEN colorMap[colorStr] ELSE defaultColor

\* What ConvertBackgroundImage (draw.go:255-281) can make of
\* "background.gif": an error (written <<>>), or the frames of the GIF, each
\* written by its pixel.
Assets ==
    {<<>>, <<(<<10, 20, 30, 255>>)>>,
     <<(<<10, 20, 30, 255>>), (<<40, 50, 60, 255>>)>>}

\* draw.go:177-188: degreeSymbol and speedSymbol for a unit
setMeasurementUnits(u) ==
    IF u = "metric" THEN <<"C", "km/h">>
    ELSE IF u = "imperial" THEN <<"F", "mph">>
    ELSE <<"K", "m/s">>

\* draw.go:87: the default of SetTextColor
White == <<255, 255, 255, 255>>

\* The aggregate states a render is given: the weather absent or present,
\* the sensors not yet read or read.
AggStates ==
    {[ZeroState EXCEPT !.weather = w, !.cpu = t.CPU, !.gpu = t.GPU] :
       w \in {"nil"} \cup WeatherInfos,
       t \in {[CPU |-> 0, GPU |-> 0]} \cup TempReadings}

\* The calls of drawDisplay followed one after the other.
MaxRenders == 2

drawFrame ==
    <<envState, fatal, shared, handleSets, deviceMutex, mainPc, monVars,
      schedPc, schedEv, touchVars, now, refreshRate, weatherChan,
      configUpdate, weatherUpdate, config, lastFrame, flowVars>>

\* display.go:203-215: if device == nil { return nil }; GetConfig() is not
\* nil once StartNexus has loaded the configuration (nexus.go:51-55);
\* imageBuffer := InitImageBuffer(width, height), draw.go:36-38
DrawBegin ==
    /\ drawPc = "begin"
    /\ renders' = renders + 1
    /\ IF device = 0
         THEN /\ drawPc' = "returned"
              /\ ddRet' = "nil"
              /\ imageBuffer' = imageBuffer
         ELSE /\ drawPc' = "context"
              /\ ddRet' = ddRet
              /\ imageBuffer' = [len |-> width * height * 4,
                                 fill |-> ZeroPixel, text |-> <<>>]
    /\ cfg' = config
    /\ UNCHANGED <<state, textSettings, asset, getBackgroundOnce, background,
                   bgColor, img>>
    /\ UNCHANGED <<dSrc, inks, unit, symbols, weatherUnit>>
    /\ UNCHANGED <<encPc, frame, encI, data, writerBuf, wire, reads, devErr,
                   call, probe, seen>>
    /\ UNCHANGED drawFrame

\* draw.go:40-83.  getBackgroundOnce.Do loads the background on the first
\* call only, and err is set on that call only.  The image filled with the
\* configured colour (lines 49-51) is a variable of the if block; the img of
\* line 55 is a new image.NewRGBA, on which a background frame is drawn when
\* there is one (the frame index follows the clock).  d is a new font.Drawer
\* on that image, its Src white (lines 72-80).
CreateImageContext ==
    /\ drawPc = "context"
    /\ LET loaded == IF getBackgroundOnce THEN background ELSE asset
           err == ~getBackgroundOnce /\ asset = <<>>
           inBlock == IF err
                        THEN [pix |-> width * height * 4,
                              fill |-> parseColor(bgColor, <<0, 0, 0, 255>>),
                              text |-> <<>>]
                        ELSE img
       IN /\ background' = loaded
          /\ getBackgroundOnce' = TRUE
          /\ \E fill \in (IF Len(loaded) > 0
                            THEN {loaded[k] : k \in 1..Len(loaded)}
                            ELSE {ZeroPixel}) :
               img' = [pix |-> width * height * 4, fill |-> fill,
                       text |-> <<>>]
    /\ dSrc' = White
    /\ inks' = <<>>
    /\ drawPc' = "elements"
    /\ UNCHANGED <<state, textSettings, asset, bgColor, imageBuffer, renders>>
    /\ UNCHANGED <<cfg, unit, symbols, weatherUnit>>
    /\ UNCHANGED encVars
    /\ UNCHANGED drawFrame

\* display.go:223-229: SetTextColor and SetTimeFormat with the fields of cfg
\* (draw.go:86-97), then DrawSystemTemperatures, DrawNetworkStats and
\* DrawTime, each through d.DrawString (draw.go:100-157)
DrawElements ==
    /\ drawPc = "elements"
    /\ textSettings' = cfg
    /\ dSrc' = parseColor(TextColorOf(cfg), White)
    /\ img' = [img EXCEPT !.text = <<"temps", "network", "time">>]
    /\ inks' = <<dSrc', dSrc', dSrc'>>
    /\ drawPc' = "weather"
    /\ UNCHANGED <<state, asset, getBackgroundOnce, background, bgColor,
                   imageBuffer, renders>>
    /\ UNCHANGED <<cfg, unit, symbols, weatherUnit>>
    /\ UNCHANGED encVars
    /\ UNCHANGED drawFrame

\* Mutant of DrawWeather: weatherInfo is used without the nil test.
DrawWeatherNoNilTest ==
    /\ drawPc = "weather"
    /\ IF state.weather = "nil"
         THEN /\ fatal' = "panic" /\ img' = img /\ drawPc' = drawPc
              /\ UNCHANGED <<symbols, inks>>
         ELSE /\ fatal' = fatal
              /\ symbols' = setMeasurementUnits(unit)
              /\ img' = [img EXCEPT !.text = Append(@, "weather")]
              /\ inks' = Append(inks, dSrc)
              /\ drawPc' = "copy"
    /\ UNCHANGED <<state, textSettings, asset, getBackgroundOnce, background,
                   bgColor, imageBuffer, renders>>
    /\ UNCHANGED <<cfg, dSrc, unit, weatherUnit>>
    /\ UNCHANGED encVars
    /\ UNCHANGED <<envState, shared, handleSets, deviceMutex, mainPc, monVars,
                   schedPc, schedEv, touchVars, now, refreshRate, weatherChan,
                   configUpdate, weatherUpdate, config, lastFrame, flowVars>>

\* Mutant of DrawWeather: the weather text is drawn with the text colour of
\* the configuration as it is now, not with the drawer's.
DrawWeatherReadsConfig ==
    /\ drawPc = "weather"
    /\ fatal' = fatal
    /\ IF state.weather = "nil"
         THEN UNCHANGED <<img, inks, symbols>>
         ELSE /\ symbols' = setMeasurementUnits(unit)
              /\ img' = [img EXCEPT !.text = Append(@, "weather")]
              /\ inks' = Append(inks, parseColor(TextColorOf(config), White))
    /\ drawPc' = "copy"
    /\ UNCHANGED <<state, textSettings, asset, getBackgroundOnce, background,
                   bgColor, imageBuffer, renders>>
    /\ UNCHANGED <<cfg, dSrc, unit, weatherUnit>>
    /\ UNCHANGED encVars
    /\ UNCHANGED <<envState, shared, handleSets, deviceMutex, mainPc, monVars,
                   schedPc, schedEv, touchVars, now, refreshRate, weatherChan,
                   configUpdate, weatherUpdate, config, lastFrame, flowVars>>

\* display.go:230 and draw.go:159-175: if weatherInfo == nil { return };
\* setMeasurementUnits(unit); the text with degreeSymbol and speedSymbol is
\* drawn through d.DrawString
DrawWeather ==
    /\ drawPc = "weather"
    /\ fatal' = fatal
    /\ IF state.weather = "nil"
         THEN UNCHANGED <<img, inks, symbols>>
         ELSE /\ symbols' = setMeasurementUnits(unit)
              /\ img' = [img EXCEPT !.text = Append(@, "weather")]
              /\ inks' = Append(inks, dSrc)
    /\ drawPc' = "copy"
    /\ UNCHANGED <<state, textSettings, asset, getBackgroundOnce, background,
                   bgColor, imageBuffer, renders>>
    /\ UNCHANGED <<cfg, dSrc, unit, weatherUnit>>
    /\ UNCHANGED encVars
    /\ UNCHANGED <<envState, shared, handleSets, deviceMutex, mainPc, monVars,
                   schedPc, schedEv, touchVars, now, refreshRate, weatherChan,
                   configUpdate, weatherUpdate, config, lastFrame, flowVars>>

\* display.go:232: copy(imageBuffer, img.Pix) copies as many bytes as the
\* shorter of the two holds and leaves the length of imageBuffer alone
DrawCopy ==
    /\ drawPc = "copy"
    /\ imageBuffer' =
         IF img.pix >= imageBuffer.len
           THEN [len |-> imageBuffer.len, fill |-> img.fill, text |-> img.text]
           ELSE [len |-> imageBuffer.len, fill |-> ZeroPixel, text |-> <<>>]
    /\ drawPc' = "send"
    /\ UNCHANGED <<state, textSettings, asset, getBackgroundOnce, background,
                   bgColor, img, renders>>
    /\ UNCHANGED inkVars
    /\ UNCHANGED encVars
    /\ UNCHANGED drawFrame

\* display.go:235: sendImageDataInChunks(imageBuffer) is called; the bytes
\* of the frame stand for what was drawn
DrawSend ==
    /\ drawPc = "send"
    /\ \E s \in FrameSeeds : frame' = [len |-> imageBuffer.len, seed |-> s]
    /\ encPc' = "check"
    /\ drawPc' = "sending"
    /\ UNCHANGED <<state, textSettings, asset, getBackgroundOnce, background,
                   bgColor, img, imageBuffer, renders>>
    /\ UNCHANGED inkVars
    /\ UNCHANGED <<encI, data, writerBuf, wire, reads, devErr, ddRet, call,
                   probe, seen>>
    /\ UNCHANGED drawFrame

\* The Scheduler's next event calls drawDisplay again, with the aggregate
\* state it then has, its weather value the one before or one fetched with
\* the configuration now in force; the chunk loop of the call before is
\* followed in EncSpec.
DrawAgain ==
    /\ \/ drawPc = "returned"
       \/ drawPc = "sending" /\ encPc # "check"
    /\ renders < MaxRenders
    /\ drawPc' = "begin"
    /\ state' \in AggStates
    /\ weatherUnit' \in {weatherUnit, UnitOf(config)}
    /\ encPc' = "idle"
    /\ data' = <<>>
    /\ ddRet' = "none"
    /\ UNCHANGED <<textSettings, asset, getBackgroundOnce, background, bgColor,
                   img, imageBuffer, renders>>
    /\ UNCHANGED <<cfg, dSrc, inks, unit, symbols>>
    /\ UNCHANGED <<frame, encI, writerBuf, wire, reads, devErr, call, probe,
                   seen>>
    /\ UNCHANGED drawFrame

\* updateDisplay has found the session connected and calls drawDisplay
\* (display.go:170); the first call of CreateImageContext is still to come.
DrawInit ==
    /\ envState = "good"
    /\ fatal = "none"
    /\ device \in {0, 1}
    /\ usbintf = device
    /\ connected = (device # 0)
    /\ closed = {}
    /\ intfClosed = {}
    /\ deviceMutex = "free"
    /\ mainPc = "started"
    /\ monPc = "idle"
    /\ monI = 0
    /\ newDevice = 0
    /\ attempts = 0
    /\ waits = <<>>
    /\ schedPc = "dd_check"
    /\ schedEv = "tick"
    /\ touchPc = "t_loop"
    /\ tintf = 0
    /\ state \in AggStates
    /\ now = 0
    /\ refreshRate = 0
    /\ configUpdate = 0
    /\ weatherUpdate = 0
    /\ config \in Prefs
    /\ textSettings = config
    /\ lastFrame = <<>>
    /\ weatherChan = <<>>
    /\ EncIdle
    /\ cfg = config
    /\ dSrc = ZeroPixel
    /\ inks = <<>>
    /\ unit = "imperial"
    /\ symbols = <<"", "">>
    /\ weatherUnit = UnitOf(config)
    /\ FlowIdle
    /\ drawPc = "begin"
    /\ asset \in Assets
    /\ getBackgroundOnce = FALSE
    /\ background = <<>>
    /\ bgColor \in BgColors
    /\ img = [pix |-> 0, fill |-> ZeroPixel, text |-> <<>>]
    /\ imageBuffer = [len |-> 0, fill |-> ZeroPixel, text |-> <<>>]
    /\ renders = 0

\* draw.go:514-547: WatchConfig loads the other configuration file while a
\* render is under way or between two; its unit differs, so the weather
\* monitor is asked for an update (lines 524-533); config, unit and the
\* signal on updateCh (lines 536-544)
WatchConfigDuringDraw ==
    /\ Started
    /\ \E c \in Prefs \ {config} :
         /\ config' = c
         /\ unit' = UnitOf(c)
    /\ weatherUpdate' = 1
    /\ configUpdate' = 1
    /\ UNCHANGED <<fatal, state, now, refreshRate, weatherChan, textSettings,
                   lastFrame>>
    /\ UNCHANGED <<drawPc, asset, getBackgroundOnce, background, bgColor, img,
                   imageBuffer, renders, cfg, dSrc, inks, symbols, weatherUnit>>
    /\ UNCHANGED <<envFrame, envState, mainPc, monVars, touchVars, encVars,
                   flowVars>>

DrawNext ==
    \/ DrawBegin \/ CreateImageContext \/ DrawElements \/ DrawWeather
    \/ DrawCopy \/ DrawSend \/ EncCheck \/ DrawAgain
    \/ WatchConfigDuringDraw

DrawSpec == DrawInit /\ [][DrawNext]_vars

(***************************************************************************)
(* Properties of the connection manager                                    *)
(***************************************************************************)

\* C1: whenever connected is true the Session holds a device handle that is
\* non-nil and has not been closed.
C1_ConnectedHoldsLiveHandle ==
    connected => (device # 0 /\ device \notin closed)

\* C2: on a successful reconnect a handle replaced in device has been closed
\* before it is replaced, and the Close() of attemptReconnection never closes
\* the newly obtained handle.
C2_ReconnectClosesOldHandle ==
    [][ /\ (device # 0 /\ device' # 0 /\ device' # device) => device \in closed
        /\ (monPc = "close_old" /\ monPc' = "install") => newDevice \notin closed'
      ]_vars

\* The program points whose next step reads or writes device or connected.
MonAccess == {"health", "hc_flip", "hc_close", "attempt", "close_old",
              "install", "set_conn"}
SchedAccess == {"ud_check", "dd_check", "send_check", "writing", "dd_fail",
                "rd_close", "rd_nil", "rd_flag"}
TouchAccess == {"t_loop", "t_events", "t_err"}

\* C3: every step that reads or writes device or connected is taken by a
\* worker that holds deviceMutex.
C3_AccessOnlyUnderLock ==
    Started =>
        /\ monPc \in MonAccess => deviceMutex = "monitor"
        /\ schedPc \in SchedAccess => deviceMutex = "sched"
        /\ touchPc \in TouchAccess => deviceMutex = "touch"

\* C4: a failing initialisation step of ConnectNexus never terminates the
\* process.
C4_InitFailureKeepsProcessRunning == fatal \notin InitSteps

\* The program points of attemptReconnection after ConnectNexus returned a
\* device.
SuccessPcs == {"close_old", "install", "set_conn"}

Ladder == <<1, 2, 4, 8, 16, 32, 64, 128, 256>>

\* C6: the waits between the attempts of a retry sequence are 1, 2, 4, ...
\* seconds, the wait after failed attempt i being 2^(i-1); a sequence whose 10
\* attempts all failed has made exactly the 9 waits 1..256 and none after the
\* 10th attempt.
C6_BackoffLadder ==
    /\ Len(waits) <= Len(Ladder)
    /\ waits = SubSeq(Ladder, 1, Len(waits))
    /\ monPc = "failed" => Len(waits) = attempts - 1
    /\ monPc = "exhausted" => (attempts = 10 /\ waits = Ladder)

\* All 10 attempts of a retry sequence have failed.
C6_Witness == monPc = "exhausted"

\* C7: if from some point on a matching device is attached and its
\* initialisation steps succeed, the Session becomes connected again and again.
C7_EventuallyReconnects == <>[](envState = "good") => []<>connected

\* C8: a Monitor tick whose health check failed sets connected to false,
\* leaves no open handle in device, and returns to the ticker without a
\* ConnectNexus call or a backoff wait.
C8_HealthFailureOnlyDisconnects ==
    [][ /\ monPc \in {"hc_flip", "hc_close"} =>
             /\ monPc' \in {"hc_flip", "hc_close", "idle"}
             /\ attempts' = attempts /\ waits' = waits
             /\ newDevice' = newDevice
        /\ (monPc = "hc_close" /\ monPc' = "idle") =>
             /\ ~connected'
             /\ (device' = 0 \/ device' \in closed')
      ]_vars

\* A Monitor tick found the Session connected and its health check failed.
C8_Witness == monPc = "hc_flip" /\ connected

WritesSession == device' # device \/ connected' # connected

\* A step of InitializeDevice, monitorConnection or attemptReconnection.
ManagerStep == mainPc' # mainPc \/ monPc' # monPc

\* A step of the Scheduler on a transport-failure path.
SchedFailureStep ==
    /\ schedPc \in {"writing", "dd_fail", "rd_close", "rd_nil", "rd_flag"}
    /\ schedPc' # schedPc

\* C10 as stated: outside the Scheduler's transport-failure paths only the
\* Connection Manager writes device or connected.
C10_OnlyManagerWrites ==
    [][WritesSession => (ManagerStep \/ SchedFailureStep)]_vars

\* C10 as amended: the touch-input reader also writes connected, only ever to
\* false, and never writes device.
C10_ManagerAndTouchWrite ==
    [][WritesSession =>
         \/ ManagerStep
         \/ SchedFailureStep
         \/ (touchPc' # touchPc /\ device' = device /\ ~connected')
      ]_vars

\* The touch-input reader is about to clear a set connected flag.
C10_Witness == touchPc = "t_err" /\ connected /\ device # 0

(***************************************************************************)
(* Properties of the Scheduler                                             *)
(***************************************************************************)

\* C11: a render+transmit that fails is followed at once, whichever event
\* called it, by resetDevice (which closes and nils the handle and clears
\* connected).
C11_FailedRenderResets ==
    [][(schedPc = "dd_fail" /\ schedPc' # "dd_fail") => schedPc' = "rd_close"]_vars

\* A step of the Scheduler's own.
SchedStep == schedPc' # schedPc

\* C12: when updateDisplay finds the session disconnected it returns nil at
\* once: nothing is rendered or written, no error is returned, connected
\* stays false and the handle is left as it was.
C12_DisconnectedRenderIsNoOp ==
    [][(schedPc = "ud_check" /\ ~connected /\ SchedStep)
         => /\ schedPc' = "select"
            /\ connected' = FALSE
            /\ UNCHANGED <<device, usbintf, closed, intfClosed, fatal, lastFrame>>]_vars

C12_Witness == schedPc = "ud_check" /\ ~connected /\ device # 0

\* The Scheduler takes a value from weatherChan.
WeatherTaken == weatherChan # <<>> /\ weatherChan' = <<>>

\* C13: a weather update received while disconnected replaces the weather
\* snapshot; its updateDisplay call, finding the session disconnected,
\* transmits nothing and leaves connected false.
C13_WeatherWhileDisconnected ==
    [][/\ (WeatherTaken /\ ~connected) => state'.weather = weatherChan[1]
       /\ (schedEv = "weather" /\ schedPc = "ud_check" /\ ~connected /\ SchedStep)
            => /\ schedPc' = "select"
               /\ connected' = FALSE
               /\ lastFrame' = lastFrame
               /\ state' = state]_vars

C13_Witness ==
    schedEv = "weather" /\ schedPc = "ud_check" /\ ~connected
    /\ state.weather = "rain"

\* C14: a temperature or network update changes its own fields of the state
\* and nothing else, and calls no render; a frame reaches the device only in
\* the handling of a tick, weather or configuration event, and it carries
\* the state as it then is.
C14_SensorUpdatesOnlyMerge ==
    [][/\ (state'.cpu # state.cpu \/ state'.gpu # state.gpu)
            => /\ state' = [state EXCEPT !.cpu = state'.cpu, !.gpu = state'.gpu]
               /\ UNCHANGED <<schedPc, deviceMutex, lastFrame, shared>>
       /\ (state'.network # state.network)
            => /\ state' = [state EXCEPT !.network = state'.network]
               /\ UNCHANGED <<schedPc, deviceMutex, lastFrame, shared>>
       /\ (lastFrame' # lastFrame)
            => /\ schedEv \in RenderEvents
               /\ schedPc = "writing"
               /\ lastFrame' = <<Snapshot(state)>>]_vars

C14_Witness ==
    /\ schedEv = "tick" /\ schedPc = "select"
    /\ state.cpu # 0 /\ state.network.Sent # 0
    /\ lastFrame = <<Snapshot(state)>>

\* C15: every weather update taken by the Scheduler is merged, stamps
\* lastWeatherUpdate with the current time and calls updateDisplay in the
\* same step; that call renders whenever the session is connected.
C15_WeatherUpdateRendersAtOnce ==
    [][/\ WeatherTaken
            => /\ weatherChan[1] \in WeatherInfos
               /\ state' = [state EXCEPT !.weather = weatherChan[1],
                                         !.lastWeatherUpdate = <<now>>]
               /\ schedPc = "select" /\ schedPc' = "ud_check"
               /\ schedEv' = "weather"
       /\ (schedEv = "weather" /\ schedPc = "ud_check" /\ connected
             /\ device # 0 /\ SchedStep)
            => schedPc' = "dd_check"]_vars

C15_Witness ==
    /\ schedEv = "weather" /\ schedPc = "writing"
    /\ now > 0 /\ state.lastWeatherUpdate = <<now>>

\* The Scheduler takes a signal from configUpdate.
ConfigTaken == configUpdate = 1 /\ configUpdate' = 0

TickTaken == refreshRate = 1 /\ refreshRate' = 0

\* C17: every tick taken calls updateDisplay; with the session connected the
\* call renders and, when the writes succeed, delivers the current state,
\* changed or not since the last frame.
C17_EveryTickRenders ==
    [][/\ TickTaken => (schedPc' = "ud_check" /\ schedEv' = "tick")
       /\ (schedEv = "tick" /\ schedPc = "ud_check" /\ connected
             /\ device # 0 /\ SchedStep)
            => schedPc' = "dd_check"
       /\ (schedEv = "tick" /\ schedPc = "dd_check" /\ device # 0 /\ SchedStep)
            => schedPc' = "send_check"
       /\ (schedEv = "tick" /\ schedPc = "writing" /\ schedPc' = "select"
             /\ connected')
            => lastFrame' = <<Snapshot(state)>>]_vars

C17_Witness ==
    schedEv = "tick" /\ schedPc = "writing" /\ lastFrame = <<Snapshot(state)>>

\* C18: the Scheduler takes an event, and starts an updateDisplay call, only
\* when the handling of the previous event has returned.
C18_OneFrameInFlight ==
    [][/\ (TickTaken \/ WeatherTaken \/ ConfigTaken \/ state' # state)
            => schedPc = "select"
       /\ (schedPc' = "ud_check" /\ SchedStep) => schedPc = "select"]_vars

C18_Witness ==
    /\ schedPc = "writing"
    /\ refreshRate = 1 /\ weatherChan # <<>> /\ configUpdate = 1

(***************************************************************************)
(* Properties of the transport encoder                                     *)
(***************************************************************************)

\* The chunk the writer holds: the next one the endpoint receives.
Held == writerBuf[1]

C20_PixelPlacement ==
    /\ writerBuf # <<>> =>
         /\ Held[4] = wire
         /\ \A num \in 0..253 :
              LET p == Held[4] * 254 + num IN
                p <= 30719 =>
                  /\ Held[8 + num * 4] = ImageByte(frame, p * 4 + 2)
                  /\ Held[8 + num * 4 + 1] = ImageByte(frame, p * 4 + 1)
                  /\ Held[8 + num * 4 + 2] = ImageByte(frame, p * 4)
                  /\ Held[8 + num * 4 + 3] = 255
    /\ encPc = "done" => wire = (30719 \div 254) + 1

C20_Witness ==
    /\ encPc = "flush" /\ writerBuf # <<>> /\ Held[4] = 120
    /\ ImageByte(frame, 30719 * 4 + 3) # 255
    /\ Held[8 + 239 * 4 + 3] = 255

\* The pixels chunk i is to carry: 254, or what is left of the 30720.
OwnPixels(i) == IF 30720 - i * 254 < 254 THEN 30720 - i * 254 ELSE 254

\* C21: chunk i is filled from the pixels i*254 up to, not including,
\* min((i+1)*254, 30720) and no others, and every byte of the chunk after
\* the eight header bytes and the payload of those pixels is zero.
C21_OnlyOwnPixelsRestZero ==
    /\ (data # <<>> /\ reads # {}) =>
         reads \subseteq
           (data[4] * 254)..(data[4] * 254 + OwnPixels(data[4]) - 1)
    /\ writerBuf # <<>> =>
         \A k \in 8..4095 :
           (k - 8) \div 4 >= OwnPixels(Held[4]) => Held[k] = 0

\* C22: pixel 30719 is stored in chunk 120 at offset 239; chunk 120 is
\* filled from the pixels 30480..30719 only, and no chunk is filled from a
\* byte of the frame at index 122880 or beyond.
C22_LastChunkReadsInsideFrame ==
    /\ \A p \in reads : p <= 30719 /\ p * 4 + 2 < frame.len
    /\ (data # <<>> /\ reads # {} /\ data[4] = 120) =>
         /\ reads = 30480..30719
         /\ data[8 + 239 * 4] = ImageByte(frame, 30719 * 4 + 2)
         /\ data[8 + 239 * 4 + 1] = ImageByte(frame, 30719 * 4 + 1)
         /\ data[8 + 239 * 4 + 2] = ImageByte(frame, 30719 * 4)

C22_Witness ==
    /\ data # <<>> /\ data[4] = 120 /\ reads = 30480..30719
    /\ frame.len = 122880

\* The step on which sendImageDataInChunks leaves its tests.
Checked == encPc = "check" /\ encPc' # "check"

\* C23 as stated: a frame of the wrong length gets the size-mismatch error
\* whether or not the session is connected, a frame of the right length
\* never does, and with the error nothing is written.
C23_WrongLengthAlwaysMismatch ==
    [][/\ Checked =>
            ((encPc' = "mismatch") <=> (frame.len # width * height * 4))
       /\ encPc' = "mismatch" => wire' = 0]_vars

\* C23 amended: while connected is true a frame of the wrong length gets the
\* size-mismatch error and nothing is written; while connected is false the
\* call returns nil without testing the length; a frame of the right length
\* never gets the error.
C23_WrongLengthMismatchWhenConnected ==
    [][/\ Checked =>
            /\ (encPc' = "mismatch") <=>
                 (connected /\ frame.len # width * height * 4)
            /\ ~connected => encPc' = "skipped"
       /\ encPc' \in {"mismatch", "skipped"} => (wire' = 0 /\ writerBuf' = <<>>)
       /\ ddRet' = "mismatch" => (wire' = 0 /\ frame.len # width * height * 4)
      ]_vars

C23_Witness == ddRet = "mismatch" /\ wire = 0 /\ usbintf \in intfClosed

\* What a step hands to the endpoint is the whole chunk whose index is the
\* number of chunks handed over before, one chunk per step.
OneWholeChunkInOrder ==
    /\ wire' \in {wire, wire + 1}
    /\ wire' = wire + 1 =>
         /\ writerBuf # <<>>
         /\ DOMAIN writerBuf[1] = 0..(chunkSize - 1)
         /\ writerBuf[1][4] = wire

\* C24 as stated: the chunks reach the endpoint one whole chunk at a time in
\* the order 0, 1, ..., 120, and whenever the call returns nil all 121 have
\* reached it.
C24_NilReturnMeansAllChunks ==
    [][/\ OneWholeChunkInOrder
       /\ encPc' \in NilReturns => (wire' = 121 /\ writerBuf' = <<>>)]_vars

\* C24 amended: the chunks reach the endpoint one whole chunk at a time in
\* the order 0, 1, ..., 120; when the call returns nil after its Flush all
\* 121 have reached it, chunk 120 in the Flush; when it returns nil because
\* the session was not connected none has, and when it returns nil because
\* a write met "device was disconnected" only the chunks before the failed
\* one have.
C24_FlushedReturnMeansAllChunks ==
    [][/\ OneWholeChunkInOrder
       /\ encPc' = "done" => (wire' = 121 /\ writerBuf' = <<>>)
       /\ (encPc = "flush" /\ encPc' = "done") =>
            (wire = 120 /\ writerBuf[1][4] = 120)
       /\ encPc' = "skipped" => wire' = 0
       /\ encPc' = "dropped" => wire' < 120]_vars

C24_Witness == encPc = "done" /\ wire = 121 /\ frame.seed = 3

\* C25: whichever chunk's write to the device fails with "device was
\* disconnected", drawDisplay's caller gets nil and connected is false.
C25_DisconnectedWriteIsSilent ==
    (encPc = "returned" /\ devErr = "disconnected") =>
       (ddRet = "nil" /\ ~connected)

\* C26: when a chunk's write to the device fails with another error, the
\* error is returned ("failed to write data" or "failed to flush data"),
\* drawDisplay hands it on, and connected is false when the error of a Write
\* is returned and when drawDisplay returns.
C26_OtherWriteErrorSurfaces ==
    /\ devErr = "other" =>
         encPc \in {"write_failed", "flush_failed", "returned"}
    /\ encPc = "write_failed" => ~connected
    /\ (encPc = "returned" /\ devErr = "other") =>
         (ddRet \in {"write_failed", "flush_failed"} /\ ~connected)

C26_Witness ==
    /\ encPc = "returned" /\ devErr = "other" /\ ddRet = "write_failed"
    /\ wire = 1

\* C27: a render+transmit asked for while connected is true and the device
\* handle is nil ends with an error for the caller: the Scheduler does not
\* go back to its select as after a success, and the process does not panic.
C27_NullHandleIsAnError ==
    [][(schedPc \in {"ud_check", "dd_check"} /\ connected /\ device = 0
          /\ SchedStep)
         => (schedPc' = "dd_fail" /\ fatal' = "none")]_vars

Elements(s) ==
    <<"temps", "network", "time">> \o
      (IF s.weather = "nil" THEN <<>> ELSE <<"weather">>)

\* C29: whatever the aggregate state, with or without a weather value, the
\* render runs to its end and hands the encoder a buffer of width*height*4
\* = 122880 bytes; without a weather value only the weather element is left
\* out, and the call that follows passes the length test.
C29_RenderAlwaysFullFrame ==
    /\ fatal = "none"
    /\ drawPc \in {"send", "sending"} =>
         /\ imageBuffer.len = 122880
         /\ imageBuffer.len = width * height * 4
         /\ imageBuffer.text = Elements(state)
    /\ drawPc = "sending" => (frame.len = 122880 /\ encPc # "mismatch")

C29_Witness ==
    /\ drawPc = "sending" /\ encPc = "loop" /\ state.weather = "nil"
    /\ imageBuffer.text = <<"temps", "network", "time">>

\* C30: when the background cannot be loaded, the image the text elements
\* are drawn on, in the first render and in every later one, is filled with
\* the configured background colour (black for a string that names none).
C30_FallbackColourFills ==
    (asset = <<>> /\ drawPc \in {"elements", "weather", "copy"}) =>
       img.fill = parseColor(bgColor, <<0, 0, 0, 255>>)

(***************************************************************************)
(* Properties across the workers                                           *)
(***************************************************************************)

\* C35: checkDeviceHealth answers true exactly when the device handle and
\* the interface are both non-nil and neither has been closed: the Monitor
\* goes back to its ticker after the check exactly in that case, and flips
\* the session to disconnected otherwise.
C35_HealthyMeansUsable ==
    [][(monPc = "health" /\ monPc' # "health") =>
         ((monPc' = "idle") <=>
            (/\ device # 0 /\ usbintf # 0
             /\ device \notin closed /\ usbintf \notin intfClosed))]_vars

\* C36: the reset after the failed transmission (on handle 1 in ResetSpec)
\* closes no other handle than that one, nulls no other handle, and does not
\* take back a connected = true the Monitor loop has set since the failure.
C36_ResetSparesNewHandle ==
    [][/\ (schedPc = "rd_close" /\ schedPc' = "rd_nil") =>
            (closed' \ closed) \subseteq {1}
       /\ (schedPc = "rd_nil" /\ schedPc' = "rd_flag") => device \in {0, 1}
       /\ (schedPc = "rd_flag" /\ schedPc' = "select") => ~connected]_vars

\* A retry sequence begins: attemptReconnection is entered.
SequenceStarts ==
    /\ monPc' = "attempt" /\ monI' = 0
    /\ monPc # "attempt" \/ monI # 0

\* C39: a retry sequence begins only from the Monitor's ticker, never while
\* another sequence is attempting, sleeping in backoff or installing; every
\* attempt of the sequence is counted once; and no two calls of ConnectNexus
\* are in progress together.
C39_OneRetrySequence ==
    [][/\ SequenceStarts => (monPc = "idle" /\ ~connected)
       /\ (Running /\ monPc \in {"attempt", "failed", "exhausted"}) =>
            (attempts = monI + (IF monPc = "failed" THEN 1 ELSE 0)
             /\ Len(waits) <= monI)
       /\ ~(mainPc \in {"init_setup", "init_assign"} /\ monPc # "idle")]_vars

C39_Witness ==
    /\ monPc = "attempt" /\ monI = 3 /\ waits = <<1, 2, 4>> /\ attempts = 3

\* C31: in every image the text elements drawn so far, and so all four of
\* a finished frame, have one and the same colour, whatever configuration
\* changes fall before, between or after the drawing calls of the render.
C31_OneTextColourPerFrame ==
    /\ Len(inks) = Len(img.text)
    /\ \A i, j \in DOMAIN inks : inks[i] = inks[j]

C31_Witness ==
    /\ drawPc = "copy" /\ Len(inks) = 4 /\ img.text[4] = "weather"
    /\ config # cfg
    /\ inks[1] = parseColor(TextColorOf(cfg), White)
    /\ inks[1] # parseColor(TextColorOf(config), White)

\* C38: a finished frame that shows a weather value shows it with the
\* degree and speed symbols of the unit that value was fetched with.
C38_SymbolsOfSnapshotUnit ==
    (drawPc \in {"copy", "send", "sending"} /\ state.weather # "nil") =>
       symbols = setMeasurementUnits(weatherUnit)

\* C32: a temperature or network monitor that is at its send can always
\* complete it, whatever the Scheduler is doing.
C32_ProducersNeverBlock ==
    /\ (Running /\ tempPc = "send") => ENABLED RecvTemps
    /\ (Running /\ netPc = "send") => ENABLED RecvNetwork

\* C33: a weather value the Scheduler receives is the one the weather
\* monitor fetched last.
C33_NewestWeatherDelivered ==
    [][WeatherTaken => weatherChan[1] = wsInfo]_vars

\* The select takes an event of the source.
Taken(src) ==
    CASE src = "temps" -> tempPc = "send" /\ tempPc' = "poll"
      [] src = "network" -> netPc = "send" /\ netPc' = "poll"
      [] src = "weather" -> WeatherTaken
      [] src = "config" -> ConfigTaken
      [] src = "tick" -> TickTaken

\* When the waiting event of the source arrived: a source has at most one
\* event waiting, its last arrival.
ArrivedAt(src) ==
    CHOOSE i \in DOMAIN order :
      order[i] = src /\ \A j \in DOMAIN order : order[j] = src => j <= i

\* C34: the event the Scheduler takes is the one that arrived first among
\* those waiting, whichever sources they come from.
C34_ArrivalOrder ==
    [][\A src, other \in Sources :
         (Taken(src) /\ Pending(other)) =>
            ArrivedAt(src) <= ArrivedAt(other)]_vars

\* C37: a configuration-change signal that is waiting is taken at some
\* time; once none is waiting the text settings in force are those of the
\* newest configuration, and every render applies the configuration as it
\* then is; the watcher can always complete its send, leaving one signal.
C37_ConfigChangeHandled ==
    /\ (configUpdate = 1) ~> (configUpdate = 0)
    /\ [](configUpdate = 0 => textSettings = config)
    /\ []((Running /\ Len(order) < MaxArrivals) => ENABLED ConfigArrives)
    /\ [][/\ (schedPc = "dd_check" /\ schedPc' = "send_check") =>
              textSettings' = config
          /\ configUpdate' \in {0, 1}]_vars
====
